---- MODULE Spec2Model ----
(***************************************************************************)
(* Model of the reconciliation engine of powerdns-zone-manager:            *)
(* internal/config (normalisation, validation) and internal/manager        *)
(* (Apply: fetch phase, validation, apply phase with CreateZone,           *)
(* desired-state build, diff and PatchZone).                               *)
(*                                                                         *)
(* Go strings that the code inspects (names, types, contents) are          *)
(* sequences of one-character strings, so that suffix tests, case          *)
(* folding, concatenation, quoting and sorting are computed as the code    *)
(* computes them.  Account names and zone kinds are only compared for      *)
(* equality and stay TLA+ strings.                                         *)
(***************************************************************************)
EXTENDS Integers, Sequences, FiniteSets, TLC

\* ------------------------------------------------------------------------
\* Strings
\* ------------------------------------------------------------------------

\* byte values of the characters the model uses (sort.Strings order)
Ascii ==
  [c \in {"\"", ".", "/", "1", "2", "@", "A", "B", "E", "F", "L", "N", "O", "R",
          "S", "T", "U", "W", "X", "\\", "a", "b", "e", "f", "l", "n", "o", "r",
          "s", "t", "u", "w", "x", "|"} |->
     CASE c = "\"" -> 34 [] c = "." -> 46 [] c = "/" -> 47 [] c = "1" -> 49
       [] c = "2" -> 50 [] c = "@" -> 64 [] c = "A" -> 65 [] c = "B" -> 66
       [] c = "E" -> 69 [] c = "F" -> 70 [] c = "L" -> 76 [] c = "N" -> 78
       [] c = "O" -> 79 [] c = "R" -> 82 [] c = "S" -> 83 [] c = "T" -> 84
       [] c = "U" -> 85 [] c = "W" -> 87 [] c = "X" -> 88 [] c = "\\" -> 92
       [] c = "a" -> 97 [] c = "b" -> 98 [] c = "e" -> 101 [] c = "f" -> 102
       [] c = "l" -> 108 [] c = "n" -> 110 [] c = "o" -> 111 [] c = "r" -> 114
       [] c = "s" -> 115 [] c = "t" -> 116 [] c = "u" -> 117 [] c = "w" -> 119
       [] c = "x" -> 120 [] c = "|" -> 124]

\* strings.ToUpper / strings.ToLower, one character
UpperChar(c) ==
  IF Ascii[c] >= 97 /\ Ascii[c] <= 122
    THEN CHOOSE d \in DOMAIN Ascii : Ascii[d] = Ascii[c] - 32
    ELSE c

LowerChar(c) ==
  IF Ascii[c] >= 65 /\ Ascii[c] <= 90
    THEN CHOOSE d \in DOMAIN Ascii : Ascii[d] = Ascii[c] + 32
    ELSE c

ToUpper(s) == [i \in 1..Len(s) |-> UpperChar(s[i])]

ToLower(s) == [i \in 1..Len(s) |-> LowerChar(s[i])]

\* variant of EqualFold: the letter case counts
EqualExact(s, t) == s = t

\* strings.EqualFold for the ASCII letters of the model
EqualFold(s, t) == ToLower(s) = ToLower(t)

HasSuffix(s, t) ==
  /\ Len(s) >= Len(t)
  /\ SubSeq(s, Len(s) - Len(t) + 1, Len(s)) = t

HasPrefix(s, t) ==
  /\ Len(s) >= Len(t)
  /\ SubSeq(s, 1, Len(t)) = t

\* s < t in byte-wise lexicographic order (the order of sort.Strings)
RECURSIVE StrLess(_, _)
StrLess(s, t) ==
  IF Len(t) = 0 THEN FALSE
  ELSE IF Len(s) = 0 THEN TRUE
  ELSE IF Ascii[Head(s)] # Ascii[Head(t)] THEN Ascii[Head(s)] < Ascii[Head(t)]
  ELSE StrLess(Tail(s), Tail(t))

\* sort.Strings: insertion of one string into a sorted list
RECURSIVE InsertSorted(_, _)
InsertSorted(x, l) ==
  IF Len(l) = 0 THEN <<x>>
  ELSE IF StrLess(Head(l), x) THEN <<Head(l)>> \o InsertSorted(x, Tail(l))
  ELSE <<x>> \o l

RECURSIVE SortStrings(_)
SortStrings(l) ==
  IF Len(l) = 0 THEN <<>> ELSE InsertSorted(Head(l), SortStrings(Tail(l)))

\* fmt.Sprintf("%q", s): double quotes around s, with " and \ escaped
RECURSIVE EscapeQ(_)
EscapeQ(s) ==
  IF Len(s) = 0 THEN <<>>
  ELSE (IF Head(s) \in {"\"", "\\"} THEN <<"\\", Head(s)>> ELSE <<Head(s)>>)
         \o EscapeQ(Tail(s))

SprintfQ(s) == <<"\"">> \o EscapeQ(s) \o <<"\"">>

\* fmt.Sprintf("%t", b)
SprintfT(b) == IF b THEN <<"t", "r", "u", "e">> ELSE <<"f", "a", "l", "s", "e">>

\* a sequence without repetitions that enumerates the set S
RECURSIVE SetToSeq(_)
SetToSeq(S) ==
  IF S = {} THEN <<>>
  ELSE LET x == CHOOSE y \in S : TRUE IN <<x>> \o SetToSeq(S \ {x})

\* ------------------------------------------------------------------------
\* internal/config
\* ------------------------------------------------------------------------

DefaultTTL == 300

NoTTL == 0 - 1

ValidKinds == {"Native", "Master", "Slave", "Producer", "Consumer"}

\* CanonicalZoneName ensures the zone name ends with a dot
CanonicalZoneName(name) ==
  IF ~HasSuffix(name, <<".">>) THEN name \o <<".">> ELSE name

\* A raw `records` value (interface{}) is a tagged value:
\*   [shape |-> "nil"], [shape |-> "string", s |-> content],
\*   [shape |-> "list", items |-> <<item, ...>>], [shape |-> "map", m |-> map],
\*   [shape |-> "other"];
\* a list item is [t |-> "string", s |-> c], [t |-> "map", m |-> map] or
\* [t |-> "other"]; a map has the fields content, disabled, comment, each
\* [present |-> BOOLEAN, ok |-> BOOLEAN, v |-> value], where ok is FALSE for
\* a value of the wrong primitive type.

\* parseRecordMap: [err |-> TRUE] or [err |-> FALSE, rec |-> Record]
parseRecordMap(m) ==
  IF m.content.present /\ ~m.content.ok THEN [err |-> TRUE]
  ELSE IF m.disabled.present /\ ~m.disabled.ok THEN [err |-> TRUE]
  ELSE IF m.comment.present /\ ~m.comment.ok THEN [err |-> TRUE]
  ELSE [err |-> FALSE,
        rec |-> [Content  |-> IF m.content.present THEN m.content.v ELSE <<>>,
                 Disabled |-> IF m.disabled.present THEN m.disabled.v ELSE FALSE]]

\* one item of a records list
recordOf(item) ==
  IF item.t = "string" THEN [err |-> FALSE, rec |-> [Content |-> item.s, Disabled |-> FALSE]]
  ELSE IF item.t = "map" THEN parseRecordMap(item.m)
  ELSE [err |-> TRUE]

\* the list is invalid as soon as one item is
consRecord(one, rest) ==
  IF one.err \/ rest.err THEN [err |-> TRUE]
  ELSE [err |-> FALSE, recs |-> <<one.rec>> \o rest.recs]

\* normalizeRecordsList: [err |-> TRUE] or [err |-> FALSE, recs |-> <<Record>>]
RECURSIVE normalizeRecordsList(_)
normalizeRecordsList(items) ==
  IF Len(items) = 0 THEN [err |-> FALSE, recs |-> <<>>]
  ELSE consRecord(recordOf(Head(items)), normalizeRecordsList(Tail(items)))

\* a single record given as a map
oneRecord(r) == IF r.err THEN [err |-> TRUE] ELSE [err |-> FALSE, recs |-> <<r.rec>>]

\* normalizeRecords converts the record input formats to a list of records
normalizeRecords(input) ==
  IF input.shape = "nil" THEN [err |-> FALSE, recs |-> <<>>]
  ELSE IF input.shape = "string"
    THEN [err |-> FALSE, recs |-> <<[Content |-> input.s, Disabled |-> FALSE]>>]
  ELSE IF input.shape = "list" THEN normalizeRecordsList(input.items)
  ELSE IF input.shape = "map" THEN oneRecord(parseRecordMap(input.m))
  ELSE [err |-> TRUE]

\* variant of NormalizeZone: the kind is left as configured
NormalizeZoneAsGiven(z) == z

\* NormalizeZone applies the default kind
NormalizeZone(z) == IF z.Kind = "" THEN [z EXCEPT !.Kind = "Native"] ELSE z

\* variant of consRRset: a TTL of 0 is replaced by the default as well
consRRsetZeroTTL(input, recs, rest) ==
  IF recs.err \/ rest.err THEN [err |-> TRUE]
  ELSE [err |-> FALSE,
        rrsets |-> <<[Name    |-> input.Name,
                      Type    |-> ToUpper(input.Type),
                      TTL     |-> IF input.TTL \in {NoTTL, 0} THEN DefaultTTL ELSE input.TTL,
                      Records |-> recs.recs]>> \o rest.rrsets]

\* one normalized record set in front of the following ones
consRRset(input, recs, rest) ==
  IF recs.err \/ rest.err THEN [err |-> TRUE]
  ELSE [err |-> FALSE,
        rrsets |-> <<[Name    |-> input.Name,
                      Type    |-> ToUpper(input.Type),
                      TTL     |-> IF input.TTL = NoTTL THEN DefaultTTL ELSE input.TTL,
                      Records |-> recs.recs]>> \o rest.rrsets]

\* NormalizeRRsets: [err |-> TRUE] or [err |-> FALSE, rrsets |-> <<RRset>>]
RECURSIVE NormalizeRRsetsFrom(_)
NormalizeRRsetsFrom(inputs) ==
  IF Len(inputs) = 0 THEN [err |-> FALSE, rrsets |-> <<>>]
  ELSE consRRset(Head(inputs), normalizeRecords(Head(inputs).Records),
                 NormalizeRRsetsFrom(Tail(inputs)))

NormalizeRRsets(z) == NormalizeRRsetsFrom(z.RRsets)

\* the duplicate-detection key of validateRRsets
validateKey(rrset) == ToLower(rrset.Name) \o <<"/">> \o ToUpper(rrset.Type)

\* validateRRsets, the checks of the records of record set i
recordViolations(records, i) ==
  IF records.err THEN {[rule |-> "records-invalid", i |-> i, j |-> 0]}
  ELSE (IF Len(records.recs) = 0
          THEN {[rule |-> "records-required", i |-> i, j |-> 0]} ELSE {})
    \cup {[rule |-> "content-empty", i |-> i, j |-> j] :
            j \in {k \in 1..Len(records.recs) : records.recs[k].Content = <<>>}}

\* variant of isDuplicate: only the record set right before is compared
isDuplicateOfPrevious(rrsets, i) ==
  /\ i > 1
  /\ ~EqualFold(rrsets[i - 1].Type, <<"N", "S">>)
  /\ ~EqualFold(rrsets[i - 1].Type, <<"S", "O", "A">>)
  /\ validateKey(rrsets[i - 1]) = validateKey(rrsets[i])

\* an earlier record set of the list was registered under the same key
isDuplicate(rrsets, i) ==
  \E k \in 1..(i - 1) :
    /\ ~EqualFold(rrsets[k].Type, <<"N", "S">>)
    /\ ~EqualFold(rrsets[k].Type, <<"S", "O", "A">>)
    /\ validateKey(rrsets[k]) = validateKey(rrsets[i])

\* validateRRsets: the violations of record set i of the list, as a set of
\* [rule, i, j] entries (j is the record index, 0 when not about a record)
validateRRsetAt(rrsets, i) ==
  IF EqualFold(rrsets[i].Type, <<"N", "S">>)
    THEN {[rule |-> "ns-prohibited", i |-> i, j |-> 0]}
  ELSE IF EqualFold(rrsets[i].Type, <<"S", "O", "A">>)
    THEN {[rule |-> "soa-prohibited", i |-> i, j |-> 0]}
  ELSE (IF rrsets[i].Name = <<>> THEN {[rule |-> "name-required", i |-> i, j |-> 0]} ELSE {})
    \cup (IF rrsets[i].Type = <<>> THEN {[rule |-> "type-required", i |-> i, j |-> 0]} ELSE {})
    \cup (IF isDuplicate(rrsets, i) THEN {[rule |-> "duplicate", i |-> i, j |-> 0]} ELSE {})
    \cup recordViolations(normalizeRecords(rrsets[i].Records), i)

\* variant of validateRRsets: the loop ends at the first record set that
\* has a violation
validateRRsetsFirst(rrsets) ==
  UNION {validateRRsetAt(rrsets, i) :
           i \in {k \in 1..Len(rrsets) :
                    \A m \in 1..(k - 1) : validateRRsetAt(rrsets, m) = {}}}

validateRRsets(rrsets) == UNION {validateRRsetAt(rrsets, i) : i \in 1..Len(rrsets)}

NoState == [Exists |-> FALSE, IsManaged |-> FALSE]

\* variant of StateOf: a key missing from the map counts as a managed zone
StateOfMissingManaged(existingZones, canonicalName) ==
  IF canonicalName \in DOMAIN existingZones THEN existingZones[canonicalName]
  ELSE [Exists |-> TRUE, IsManaged |-> TRUE]

\* existingZones[canonicalName], the zero ZoneState when the key is missing
StateOf(existingZones, canonicalName) ==
  IF canonicalName \in DOMAIN existingZones THEN existingZones[canonicalName] ELSE NoState

\* variant of zoneViolations: a zone of another account is an error only
\* when nameservers are configured for it
zoneViolationsNSOnly(zoneName, zone, state) ==
  (IF ~state.Exists /\ Len(zone.Nameservers) = 0
     THEN {[zone |-> zoneName, rule |-> "nameservers-required", i |-> 0, j |-> 0]} ELSE {})
  \cup (IF state.Exists /\ ~state.IsManaged /\ Len(zone.Nameservers) > 0
          THEN {[zone |-> zoneName, rule |-> "not-managed", i |-> 0, j |-> 0]} ELSE {})
  \cup {[zone |-> zoneName, rule |-> "nameserver-empty", i |-> i, j |-> 0] :
          i \in {k \in 1..Len(zone.Nameservers) : zone.Nameservers[k] = <<>>}}
  \cup (IF zone.Kind # "" /\ zone.Kind \notin ValidKinds
          THEN {[zone |-> zoneName, rule |-> "invalid-kind", i |-> 0, j |-> 0]} ELSE {})
  \cup {[zone |-> zoneName, rule |-> e.rule, i |-> e.i, j |-> e.j] :
          e \in validateRRsets(zone.RRsets)}

\* validateZone after the state lookup
zoneViolations(zoneName, zone, state) ==
  (IF ~state.Exists /\ Len(zone.Nameservers) = 0
     THEN {[zone |-> zoneName, rule |-> "nameservers-required", i |-> 0, j |-> 0]} ELSE {})
  \cup (IF state.Exists /\ ~state.IsManaged
          THEN {[zone |-> zoneName, rule |-> "not-managed", i |-> 0, j |-> 0]} ELSE {})
  \cup {[zone |-> zoneName, rule |-> "nameserver-empty", i |-> i, j |-> 0] :
          i \in {k \in 1..Len(zone.Nameservers) : zone.Nameservers[k] = <<>>}}
  \cup (IF zone.Kind # "" /\ zone.Kind \notin ValidKinds
          THEN {[zone |-> zoneName, rule |-> "invalid-kind", i |-> 0, j |-> 0]} ELSE {})
  \cup {[zone |-> zoneName, rule |-> e.rule, i |-> e.i, j |-> e.j] :
          e \in validateRRsets(zone.RRsets)}

\* validateZone: the violations of one zone, each tagged with the zone's key
validateZone(zoneName, zone, existingZones) ==
  zoneViolations(zoneName, zone, StateOf(existingZones, CanonicalZoneName(zoneName)))

\* Validate: all violations of all zones (the empty set is Go's nil)
Validate(c, existingZones) ==
  UNION {validateZone(zoneName, c[zoneName], existingZones) : zoneName \in DOMAIN c}

\* ------------------------------------------------------------------------
\* internal/manager: pure helpers
\* ------------------------------------------------------------------------

\* the ownership account of the tool (Manager.accountName)
accountName == "zone-manager"

NSTTL == 300

NSType == <<"N", "S">>

TXTType == <<"T", "X", "T">>

\* variant of rrsetKey: the letters are left as they are
rrsetKeyAsWritten(name, recordType) == name \o <<"/">> \o recordType

rrsetKey(name, recordType) == ToLower(name) \o <<"/">> \o ToUpper(recordType)

\* variant of buildFQDN: the zone name is appended to every name but "@"
buildFQDNAlwaysAppend(name, zoneID) ==
  IF name = <<"@">> THEN zoneID ELSE name \o <<".">> \o zoneID

buildFQDN(name, zoneID) ==
  IF name = <<"@">> THEN zoneID
  ELSE IF HasSuffix(name, <<".">>) THEN name
  ELSE name \o <<".">> \o zoneID

normalizeNameserver(ns, zoneID) ==
  IF HasSuffix(ns, <<".">>) THEN ns ELSE ns \o <<".">> \o zoneID

normalizeNameservers(nameservers, zoneID) ==
  [i \in 1..Len(nameservers) |-> normalizeNameserver(nameservers[i], zoneID)]

\* variant of isManaged: any comment makes the record set managed
isManagedAnyComment(rrset) == Len(rrset.Comments) > 0

\* variant of isManaged: only the first comment is looked at
isManagedFirstComment(rrset) ==
  Len(rrset.Comments) > 0 /\ rrset.Comments[1].Account = accountName

\* isManaged: at least one comment carries the tool's account
isManaged(rrset) ==
  \E i \in 1..Len(rrset.Comments) : rrset.Comments[i].Account = accountName

\* the "content|disabled" strings that shouldUpdateRRset sorts and compares
recordStrings(records) ==
  [i \in 1..Len(records) |->
     records[i].Content \o <<"|">> \o SprintfT(records[i].Disabled)]

\* two sorted lists of the same length differ at some index
contentsDiffer(desiredContents, existingContents) ==
  \E i \in 1..Len(desiredContents) : desiredContents[i] # existingContents[i]

\* variant of shouldUpdateRRset: the content strings are compared unsorted
shouldUpdateRRsetUnsorted(desired, existing) ==
  IF desired.TTL # existing.TTL THEN TRUE
  ELSE IF Len(desired.Records) # Len(existing.Records) THEN TRUE
  ELSE contentsDiffer(recordStrings(desired.Records), recordStrings(existing.Records))

shouldUpdateRRset(desired, existing) ==
  IF desired.TTL # existing.TTL THEN TRUE
  ELSE IF Len(desired.Records) # Len(existing.Records) THEN TRUE
  ELSE contentsDiffer(SortStrings(recordStrings(desired.Records)),
                      SortStrings(recordStrings(existing.Records)))

\* variant of createRRsetPatch: the comments of the desired record set are
\* sent, which has none
createRRsetPatchBare(desired) ==
  [Name       |-> desired.Name,
   Type       |-> desired.Type,
   TTL        |-> desired.TTL,
   ChangeType |-> "REPLACE",
   Records    |-> desired.Records,
   Comments   |-> desired.Comments]

\* createRRsetPatch: the REPLACE operation of a desired record set
createRRsetPatch(desired) ==
  [Name       |-> desired.Name,
   Type       |-> desired.Type,
   TTL        |-> desired.TTL,
   ChangeType |-> "REPLACE",
   Records    |-> desired.Records,
   Comments   |-> <<[Content |-> "Managed by zone-manager", Account |-> accountName]>>]

\* the DELETE operation of an orphaned record set
deleteRRsetPatch(existing) ==
  [Name       |-> existing.Name,
   Type       |-> existing.Type,
   TTL        |-> 0,
   ChangeType |-> "DELETE",
   Records    |-> <<>>,
   Comments   |-> <<>>]

\* the records of a desired record set: TXT contents are quoted
desiredRecords(rrset) ==
  [i \in 1..Len(rrset.Records) |->
     [Content  |-> IF rrset.Type = TXTType /\ ~HasPrefix(rrset.Records[i].Content, <<"\"">>)
                     THEN SprintfQ(rrset.Records[i].Content)
                     ELSE rrset.Records[i].Content,
      Disabled |-> rrset.Records[i].Disabled]]

\* the entry buildDesiredRRsets stores for a normalized record set
desiredEntry(rrset, fqdn) ==
  [Name |-> fqdn, Type |-> rrset.Type, TTL |-> rrset.TTL, ChangeType |-> "",
   Records |-> desiredRecords(rrset), Comments |-> <<>>]

\* the loop of buildDesiredRRsets over the normalized record sets: a later
\* entry overwrites an earlier one under the same key
RECURSIVE addDesired(_, _, _)
addDesired(desired, rrsets, zoneID) ==
  IF Len(rrsets) = 0 THEN desired
  ELSE addDesired((rrsetKey(buildFQDN(Head(rrsets).Name, zoneID), Head(rrsets).Type)
                     :> desiredEntry(Head(rrsets), buildFQDN(Head(rrsets).Name, zoneID)))
                    @@ desired,
                  Tail(rrsets), zoneID)

\* the NS record set synthesized from the nameservers property
desiredNS(zoneID, cfg, state) ==
  IF Len(cfg.Nameservers) > 0 /\ (state.IsManaged \/ ~state.Exists)
    THEN rrsetKey(zoneID, NSType) :>
           [Name |-> zoneID, Type |-> NSType, TTL |-> NSTTL, ChangeType |-> "",
            Records |-> [i \in 1..Len(cfg.Nameservers) |->
                           [Content  |-> normalizeNameserver(cfg.Nameservers[i], zoneID),
                            Disabled |-> FALSE]],
            Comments |-> <<>>]
    ELSE <<>>

\* buildDesiredRRsets after the call of NormalizeRRsets
desiredFrom(rrsets, zoneID, cfg, state) ==
  IF rrsets.err THEN [err |-> TRUE]
  ELSE [err |-> FALSE,
        desired |-> addDesired(desiredNS(zoneID, cfg, state), rrsets.rrsets, zoneID)]

\* buildDesiredRRsets: [err |-> TRUE] or [err |-> FALSE, desired |-> key -> RRset]
buildDesiredRRsets(zoneID, cfg, state) ==
  desiredFrom(NormalizeRRsets(cfg), zoneID, cfg, state)

\* existingByKey: the index of the zone's record sets, a later record set
\* overwrites an earlier one under the same key
RECURSIVE existingByKey(_)
existingByKey(rrsets) ==
  IF Len(rrsets) = 0 THEN <<>>
  ELSE (rrsetKey(rrsets[Len(rrsets)].Name, rrsets[Len(rrsets)].Type) :> rrsets[Len(rrsets)])
         @@ existingByKey(SubSeq(rrsets, 1, Len(rrsets) - 1))

\* the classification of one desired key by the first loop of applyRRsets
classify(desired, existing, key) ==
  IF key \notin DOMAIN existing THEN "create"
  ELSE IF isManaged(existing[key])
    THEN (IF shouldUpdateRRset(desired[key], existing[key]) THEN "update" ELSE "unchanged")
  ELSE "skip"

\* variant of orphanKeys: the ownership test is missing
orphanKeysAny(desired, existing) == {key \in DOMAIN existing : key \notin DOMAIN desired}

\* the keys the second loop of applyRRsets deletes
orphanKeys(desired, existing) ==
  {key \in DOMAIN existing : isManaged(existing[key]) /\ key \notin DOMAIN desired}

\* the desired keys the first loop of applyRRsets classifies as kind
keysOf(desired, existing, kind) ==
  {key \in DOMAIN desired : classify(desired, existing, key) = kind}

\* the patch: Go iterates both maps in an unspecified order; the order of
\* the operations inside the patch is fixed here by SetToSeq, the desired
\* keys first, the orphans after them
patchOf(desired, existing, replaceKeys, deleteKeys) ==
  [i \in 1..Len(replaceKeys) |-> createRRsetPatch(desired[replaceKeys[i]])]
    \o [i \in 1..Len(deleteKeys) |-> deleteRRsetPatch(existing[deleteKeys[i]])]

\* the patch and the counter increments of the two loops of applyRRsets
planOf(desired, existing, creates, updates, orphans) ==
  [err     |-> FALSE,
   ops     |-> patchOf(desired, existing, SetToSeq(creates \cup updates), SetToSeq(orphans)),
   created |-> Cardinality(creates),
   updated |-> Cardinality(updates),
   deleted |-> Cardinality(orphans)]

diffRRsets(desired, existing) ==
  planOf(desired, existing, keysOf(desired, existing, "create"),
         keysOf(desired, existing, "update"), orphanKeys(desired, existing))

\* applyRRsets after the call of buildDesiredRRsets
planFrom(built, existingRRsets) ==
  IF built.err
    THEN [err |-> TRUE, ops |-> <<>>, created |-> 0, updated |-> 0, deleted |-> 0]
    ELSE diffRRsets(built.desired, existingByKey(existingRRsets))

\* applyRRsets up to the call of sendPatch: the patch and the counter
\* increments
planRRsets(zoneID, cfg, existingRRsets, state) ==
  planFrom(buildDesiredRRsets(zoneID, cfg, state), existingRRsets)

\* ------------------------------------------------------------------------
\* The backend (PowerDNSClient)
\* ------------------------------------------------------------------------

NoZone == [Exists |-> FALSE]

\* the zone a successful CreateZone stores and returns: the request, with
\* the record sets the server put into the response body
createdZone(req, rrsets) ==
  [Exists |-> TRUE, Name |-> req.Name, Kind |-> req.Kind, Account |-> req.Account,
   Nameservers |-> req.Nameservers, RRsets |-> rrsets]

\* the TTL of a server-generated record set is the server's choice
ServerTTLs == {NSTTL, 3600}

\* the apex NS record set a server derives from the nameservers of a
\* CreateZone request; it carries no comment
serverNS(req, ttl) ==
  [Name |-> req.Name, Type |-> NSType, TTL |-> ttl, ChangeType |-> "",
   Records |-> [i \in 1..Len(req.Nameservers) |->
                  [Content |-> req.Nameservers[i], Disabled |-> FALSE]],
   Comments |-> <<>>]

\* the record sets a CreateZone response may carry: none (the request is
\* echoed), or the record sets the server generated for the new zone
createdRRsetsChoices(req) ==
  {<<>>} \cup (IF Len(req.Nameservers) > 0
                THEN {<<serverNS(req, ttl)>> : ttl \in ServerTTLs} ELSE {})

\* PATCH of one record set: REPLACE and DELETE both remove the record set
\* stored under the operation's key, REPLACE then stores the new one
patchOne(rrsets, op) ==
  LET keep(r) == rrsetKey(r.Name, r.Type) # rrsetKey(op.Name, op.Type)
      rest == SelectSeq(rrsets, keep)
  IN IF op.ChangeType = "REPLACE"
       THEN Append(rest, [op EXCEPT !.ChangeType = ""])
       ELSE rest

RECURSIVE patchRRsets(_, _)
patchRRsets(rrsets, ops) ==
  IF Len(ops) = 0 THEN rrsets ELSE patchRRsets(patchOne(rrsets, Head(ops)), Tail(ops))

\* ------------------------------------------------------------------------
\* Inputs
\* ------------------------------------------------------------------------

\* the longest rrsets list of a configured zone
MaxRRsets == 2

\* the number of Apply invocations in a row
MaxRuns == 2

Str(s) == [shape |-> "string", s |-> s]

MapItem(content, disabled) ==
  [t |-> "map",
   m |-> [content  |-> [present |-> TRUE, ok |-> TRUE, v |-> content],
          disabled |-> [present |-> TRUE, ok |-> TRUE, v |-> disabled],
          comment  |-> [present |-> FALSE, ok |-> TRUE, v |-> <<>>]]]

StrItem(s) == [t |-> "string", s |-> s]

RRsetInput(name, type, records, ttl) ==
  [Name |-> name, Type |-> type, Records |-> records, TTL |-> ttl]

\* the record sets a configuration is drawn from
InputWA1 == RRsetInput(<<"w">>, <<"A">>, Str(<<"1">>), NoTTL)

InputWA2 ==
  RRsetInput(<<"w">>, <<"a">>,
             [shape |-> "list", items |-> <<StrItem(<<"2">>), MapItem(<<"1">>, TRUE)>>],
             600)

InputTXT == RRsetInput(<<"@">>, <<"t", "x", "t">>, Str(<<"t">>), NoTTL)

InputNS == RRsetInput(<<"@">>, <<"n", "s">>, Str(<<"n", ".">>), NoTTL)

InputPool == <<InputWA1, InputWA2, InputTXT, InputNS>>

\* the lists of at most n entries of the pool, in the order of the pool
InputLists(n) ==
  {[i \in 1..Len(ix) |-> InputPool[ix[i]]] :
     ix \in {jx \in UNION {[1..k -> 1..Len(InputPool)] : k \in 0..n} :
               \A i \in 1..(Len(jx) - 1) : jx[i] < jx[i + 1]}}

ZoneCfg(nameservers, rrsets) ==
  [Kind |-> "", Nameservers |-> nameservers, RRsets |-> rrsets]

ZoneA == <<"a">>

ZoneADot == <<"a", ".">>

ZoneB == <<"b">>

ZoneNames == {ZoneA, ZoneADot, ZoneB}

ZoneIDs == {CanonicalZoneName(z) : z \in ZoneNames}

\* the configurations of each zone key
RichCfgs ==
  {ZoneCfg(ns, l) : ns \in {<<>>, <<<<"n">>>>},
                    l \in InputLists(MaxRRsets)}

SmallCfgs == {ZoneCfg(<<>>, <<InputTXT>>), ZoneCfg(<<<<"n", ".">>>>, <<InputWA1>>)}

ZoneCfgs(zoneName) == IF zoneName = ZoneA THEN RichCfgs ELSE SmallCfgs

\* the sets of zone keys of a configuration: one zone, one zone under two
\* keys that differ by the trailing dot, two zones
ZoneKeySets == {{ZoneA}, {ZoneA, ZoneADot}, {ZoneA, ZoneB}}

Managed == <<[Content |-> "Managed", Account |-> accountName]>>

Manual == <<[Content |-> "Manual record", Account |-> "other-account"]>>

Existing(name, type, ttl, contents, comments) ==
  [Name |-> name, Type |-> type, TTL |-> ttl, ChangeType |-> "",
   Records |-> [i \in 1..Len(contents) |-> [Content |-> contents[i], Disabled |-> FALSE]],
   Comments |-> comments]

\* the record sets an existing zone is drawn from: at most one per key
ExistingW(zoneID) ==
  {<<>>,
   <<Existing(<<"w", ".">> \o zoneID, <<"A">>, 300, <<<<"1">>>>, Managed)>>,
   <<Existing(<<"W", ".">> \o zoneID, <<"A">>, 300, <<<<"2">>>>, Manual)>>}

ExistingX(zoneID) ==
  {<<>>,
   <<Existing(<<"x", ".">> \o zoneID, <<"A">>, 300, <<<<"1">>>>, Manual \o Managed)>>,
   <<Existing(<<"x", ".">> \o zoneID, <<"A">>, 300, <<<<"1">>>>, <<>>)>>}

ExistingZone(zoneID, account, rrsets) ==
  [Exists |-> TRUE, Name |-> zoneID, Kind |-> "Native", Account |-> account,
   Nameservers |-> <<>>, RRsets |-> rrsets]

BackendZones(zoneID) ==
  IF zoneID = ZoneADot
    THEN {NoZone, ExistingZone(zoneID, "other-owner", <<>>)}
           \cup {ExistingZone(zoneID, accountName, w \o x) :
                   w \in ExistingW(zoneID), x \in ExistingX(zoneID)}
    ELSE {NoZone, ExistingZone(zoneID, accountName, <<>>)}

\* ApplyOptions and whether SetConfirmFunc installed a callback
OptionsPool ==
  {[DryRun |-> TRUE,  AutoConfirm |-> FALSE, HasConfirmFn |-> FALSE],
   [DryRun |-> FALSE, AutoConfirm |-> TRUE,  HasConfirmFn |-> FALSE],
   [DryRun |-> FALSE, AutoConfirm |-> FALSE, HasConfirmFn |-> TRUE],
   [DryRun |-> FALSE, AutoConfirm |-> FALSE, HasConfirmFn |-> FALSE]}

\* ------------------------------------------------------------------------
\* State
\* ------------------------------------------------------------------------

VARIABLES
  cfg,            \* Config.Zones: zone key -> Zone
  opts,           \* ApplyOptions of the current run, with HasConfirmFn
  backend,        \* the zones of the backend: zone ID -> zone or NoZone
  backend0,       \* the backend at the start of the current run
  pc,             \* position of Apply: "fetch", "apply", "done"
  toFetch,        \* zone keys the first loop of Apply has not visited
  toApply,        \* zone keys the last loop of Apply has not visited
  existingZones,  \* canonical name -> ZoneState
  zoneData,       \* canonical name -> fetched zone
  result,         \* the ApplyResult under construction
  ret,            \* what Apply returned: "none", "result", "fetch-error", "validation-error"
  verrs,          \* the violations Validate returned
  calls,          \* the backend calls, the validation and the confirmations of the run, in order
  plans,          \* zone key -> what applyZone did for it
  run,            \* number of the current Apply invocation
  prev,           \* summary of the previous Apply invocation
  args,           \* the arguments of a helper function that is called on its own
  out             \* what that helper function returned

vars == <<cfg, opts, backend, backend0, pc, toFetch, toApply, existingZones, zoneData,
          result, ret, verrs, calls, plans, run, prev, args, out>>

EmptyResult ==
  [Errors |-> <<>>, ZonesCreated |-> 0, RRsetsCreated |-> 0, RRsetsUpdated |-> 0,
   RRsetsDeleted |-> 0]

NoPrev == [valid |-> FALSE, opts |-> <<>>, ret |-> "none", result |-> <<>>]

\* ok: the call returned no error (Confirm: the callback answered yes)
Call(op, zoneName, zoneID, rrsets, ok) ==
  [op |-> op, key |-> zoneName, zone |-> zoneID, rrsets |-> rrsets, ok |-> ok]

\* a CreateZone call, with the zone it was handed
CreateCall(zoneName, zoneID, req, ok) ==
  [op |-> "CreateZone", key |-> zoneName, zone |-> zoneID, rrsets |-> <<>>, ok |-> ok,
   req |-> req]

\* the entry of Apply: result := &ApplyResult{}, empty maps
ApplyEntry ==
  /\ pc = "fetch"
  /\ toFetch = DOMAIN cfg
  /\ toApply = {}
  /\ existingZones = <<>>
  /\ zoneData = <<>>
  /\ result = EmptyResult
  /\ ret = "none"
  /\ verrs = {}
  /\ calls = <<>>
  /\ plans = <<>>
  /\ backend0 = backend

\* a backend holds zones only under the IDs the configuration names
BackendFor(c) ==
  {b \in [ZoneIDs -> UNION {BackendZones(id) : id \in ZoneIDs}] :
     \A id \in ZoneIDs :
       /\ b[id] \in BackendZones(id)
       /\ (id \notin {CanonicalZoneName(z) : z \in DOMAIN c} => b[id] = NoZone)}

Configs == UNION {[D -> UNION {ZoneCfgs(z) : z \in D}] : D \in ZoneKeySets}

WellFormed(c) == \A z \in DOMAIN c : c[z] \in ZoneCfgs(z)

Init ==
  /\ cfg \in {c \in Configs : WellFormed(c)}
  /\ opts \in OptionsPool
  /\ backend \in BackendFor(cfg)
  /\ run = 1
  /\ prev = NoPrev
  /\ args = <<>>
  /\ out = <<>>
  /\ ApplyEntry

\* ------------------------------------------------------------------------
\* Apply, step 1: fetch the current state of every configured zone
\* ------------------------------------------------------------------------

\* variant of zoneStateOf: every zone that exists counts as managed
zoneStateOfOwned(zone) ==
  IF zone.Exists THEN [Exists |-> TRUE, IsManaged |-> TRUE]
  ELSE [Exists |-> FALSE, IsManaged |-> FALSE]

\* the ZoneState Apply derives from a GetZone response
zoneStateOf(zone) ==
  IF zone.Exists THEN [Exists |-> TRUE, IsManaged |-> zone.Account = accountName]
  ELSE [Exists |-> FALSE, IsManaged |-> FALSE]

GetZoneOK(zoneName) ==
  LET canonicalName == CanonicalZoneName(zoneName)
      zone == backend[canonicalName]
  IN /\ pc = "fetch"
     /\ zoneName \in toFetch
     /\ toFetch' = toFetch \ {zoneName}
     /\ calls' = Append(calls, Call("GetZone", zoneName, canonicalName, <<>>, TRUE))
     /\ existingZones' = (canonicalName :> zoneStateOf(zone)) @@ existingZones
     /\ zoneData' = IF zone.Exists THEN (canonicalName :> zone) @@ zoneData ELSE zoneData
     /\ UNCHANGED <<cfg, opts, backend, backend0, pc, toApply, result, ret, verrs, plans,
                    run, prev>>
     /\ UNCHANGED <<args, out>>

\* variant of GetZoneErr: the error is taken for "zone not found"
GetZoneErrIgnored(zoneName) ==
  /\ pc = "fetch"
  /\ zoneName \in toFetch
  /\ toFetch' = toFetch \ {zoneName}
  /\ calls' = Append(calls, Call("GetZone", zoneName, CanonicalZoneName(zoneName), <<>>, FALSE))
  /\ existingZones' = (CanonicalZoneName(zoneName) :> NoState) @@ existingZones
  /\ UNCHANGED <<cfg, opts, backend, backend0, pc, toApply, zoneData, result, ret, verrs,
                 plans, run, prev>>
  /\ UNCHANGED <<args, out>>

\* GetZone returns an error: Apply returns (nil, error)
GetZoneErr(zoneName) ==
  /\ pc = "fetch"
  /\ zoneName \in toFetch
  /\ calls' = Append(calls, Call("GetZone", zoneName, CanonicalZoneName(zoneName), <<>>, FALSE))
  /\ ret' = "fetch-error"
  /\ pc' = "done"
  /\ UNCHANGED <<cfg, opts, backend, backend0, toFetch, toApply, existingZones, zoneData,
                 result, verrs, plans, run, prev>>
  /\ UNCHANGED <<args, out>>

\* ------------------------------------------------------------------------
\* Apply, step 2: validate the configuration against the fetched state
\* ------------------------------------------------------------------------

\* variant of ValidateConfig: the violations are not returned
ValidateConfigIgnored ==
  /\ pc = "fetch"
  /\ toFetch = {}
  /\ calls' = Append(calls, Call("Validate", <<>>, <<>>, <<>>, Validate(cfg, existingZones) = {}))
  /\ verrs' = Validate(cfg, existingZones)
  /\ pc' = "apply"
  /\ toApply' = DOMAIN cfg
  /\ UNCHANGED <<cfg, opts, backend, backend0, toFetch, existingZones, zoneData, result,
                 ret, plans, run, prev>>
  /\ UNCHANGED <<args, out>>

\* variant of ValidateConfig: validation does not wait for the fetch loop
ValidateConfigEarly ==
  LET validationErr == Validate(cfg, existingZones)
  IN /\ pc = "fetch"
     /\ calls' = Append(calls, Call("Validate", <<>>, <<>>, <<>>, validationErr = {}))
     /\ verrs' = validationErr
     /\ toFetch' = {}
     /\ IF validationErr # {}
          THEN /\ ret' = "validation-error"
               /\ pc' = "done"
               /\ UNCHANGED toApply
          ELSE /\ pc' = "apply"
               /\ toApply' = DOMAIN cfg
               /\ UNCHANGED ret
     /\ UNCHANGED <<cfg, opts, backend, backend0, existingZones, zoneData, result,
                    plans, run, prev>>
     /\ UNCHANGED <<args, out>>

\* variant of ValidateConfig: validation and the apply phase start while
\* zones are still unfetched
ValidateConfigUnfetched ==
  /\ pc = "fetch"
  /\ calls' = Append(calls, Call("Validate", <<>>, <<>>, <<>>,
                                 Validate(cfg, existingZones) = {}))
  /\ verrs' = Validate(cfg, existingZones)
  /\ IF Validate(cfg, existingZones) # {}
       THEN /\ ret' = "validation-error"
            /\ pc' = "done"
            /\ UNCHANGED toApply
       ELSE /\ pc' = "apply"
            /\ toApply' = DOMAIN cfg
            /\ UNCHANGED ret
  /\ UNCHANGED <<cfg, opts, backend, backend0, toFetch, existingZones, zoneData, result,
                 plans, run, prev>>
  /\ UNCHANGED <<args, out>>

ValidateConfig ==
  LET validationErr == Validate(cfg, existingZones)
  IN /\ pc = "fetch"
     /\ toFetch = {}
     /\ calls' = Append(calls, Call("Validate", <<>>, <<>>, <<>>, validationErr = {}))
     /\ verrs' = validationErr
     /\ IF validationErr # {}
          THEN /\ ret' = "validation-error"
               /\ pc' = "done"
               /\ UNCHANGED toApply
          ELSE /\ pc' = "apply"
               /\ toApply' = DOMAIN cfg
               /\ UNCHANGED ret
     /\ UNCHANGED <<cfg, opts, backend, backend0, toFetch, existingZones, zoneData, result,
                    plans, run, prev>>
     /\ UNCHANGED <<args, out>>

\* ------------------------------------------------------------------------
\* Apply, step 3: applyZone for every configured zone
\* ------------------------------------------------------------------------

\* applyZone calls CreateZone: the zone is absent and the run is real
callsCreateZone(state, o) == ~state.Exists /\ ~o.DryRun

\* variant of reachesBackend: the dry-run return is missing
reachesBackendNoDryRun(ops, o) == Len(ops) > 0

\* sendPatch goes past its two early returns: a patch exists, the run is real
reachesBackend(ops, o) == Len(ops) > 0 /\ ~o.DryRun

\* variant of asksConfirmation: AutoConfirm is not looked at
asksConfirmationInstalled(o) == o.HasConfirmFn

\* sendPatch asks for confirmation
asksConfirmation(o) == ~o.AutoConfirm /\ o.HasConfirmFn

\* the CreateZone request of applyZone
createRequest(zoneID, zoneConfig) ==
  [Name        |-> zoneID,
   Kind        |-> zoneConfig.Kind,
   Nameservers |-> normalizeNameservers(zoneConfig.Nameservers, zoneID),
   Account     |-> accountName]

\* the zone applyRRsets diffs against: the fetched zone, the created zone,
\* or the empty mock zone of a dry run
existingZoneOf(zoneID, state, o, created) ==
  IF state.Exists THEN zoneData[zoneID]
  ELSE IF ~o.DryRun THEN created
  ELSE [Exists |-> TRUE, Name |-> zoneID, Kind |-> "", Account |-> "",
        Nameservers |-> <<>>, RRsets |-> <<>>]

\* variant of addError: the error is appended by applyZone and by Apply
addErrorTwice(res, zoneName, kind) ==
  [res EXCEPT !.Errors = @ \o <<[zone |-> zoneName, kind |-> kind],
                                [zone |-> zoneName, kind |-> kind]>>]

addError(res, zoneName, kind) ==
  [res EXCEPT !.Errors = Append(@, [zone |-> zoneName, kind |-> kind])]

addCounters(res, zoneCreated, plan) ==
  [res EXCEPT !.ZonesCreated  = @ + (IF zoneCreated THEN 1 ELSE 0),
              !.RRsetsCreated = @ + plan.created,
              !.RRsetsUpdated = @ + plan.updated,
              !.RRsetsDeleted = @ + plan.deleted]

NoPlan == [err |-> FALSE, ops |-> <<>>, created |-> 0, updated |-> 0, deleted |-> 0]

PlanEntry(state, existing, plan, outcome, createdZ, asked, sent) ==
  [state |-> state, existing |-> existing, ops |-> plan.ops, created |-> plan.created,
   updated |-> plan.updated, deleted |-> plan.deleted, outcome |-> outcome,
   zoneCreated |-> createdZ, asked |-> asked, sent |-> sent]

\* variant of nextToApply: the loop ends at the first error
nextToApplyStop(zoneName, failed) == IF failed THEN {} ELSE toApply \ {zoneName}

\* the last loop of Apply goes on to the remaining zone keys, whether or not
\* applyZone returned an error
nextToApply(zoneName, failed) == toApply \ {zoneName}

\* sendPatch: how it ends, whether the callback was asked and whether
\* PatchZone was called
sendPatch(ops, o, confirmYes, patchOK) ==
  IF ~reachesBackend(ops, o) THEN [outcome |-> "ok", asked |-> FALSE, sent |-> FALSE]
  ELSE IF asksConfirmation(o) /\ ~confirmYes
    THEN [outcome |-> "aborted", asked |-> TRUE, sent |-> FALSE]
  ELSE IF ~patchOK
    THEN [outcome |-> "patch-failed", asked |-> asksConfirmation(o), sent |-> TRUE]
  ELSE [outcome |-> "ok", asked |-> asksConfirmation(o), sent |-> TRUE]

\* variant of callsOfPatch: one PatchZone request for each operation
callsOfPatchSplit(cs, zoneName, zoneID, ops, sp, confirmYes, patchOK) ==
  (IF sp.asked THEN Append(cs, Call("Confirm", zoneName, zoneID, <<>>, confirmYes)) ELSE cs)
    \o (IF sp.sent
          THEN [i \in 1..Len(ops) |-> Call("PatchZone", zoneName, zoneID, <<ops[i]>>, patchOK)]
          ELSE <<>>)

\* the calls of sendPatch, appended to the calls made before it
callsOfPatch(cs, zoneName, zoneID, ops, sp, confirmYes, patchOK) ==
  (IF sp.asked THEN Append(cs, Call("Confirm", zoneName, zoneID, <<>>, confirmYes)) ELSE cs)
    \o (IF sp.sent THEN <<Call("PatchZone", zoneName, zoneID, ops, patchOK)>> ELSE <<>>)

\* the end of one iteration of the last loop of Apply
endOfZone(zoneName, b, res, cs, entry, failed) ==
  /\ backend' = b
  /\ result' = res
  /\ calls' = cs
  /\ plans' = (zoneName :> entry) @@ plans
  /\ toApply' = nextToApply(zoneName, failed)

\* variant of patchSent: the counters are added when the patch was applied
patchSentCountApplied(zoneName, zoneID, state, ans, b, cs, existingRRsets, plan, sp) ==
  endOfZone(zoneName,
            IF sp.sent /\ sp.outcome = "ok"
              THEN [b EXCEPT ![zoneID].RRsets = patchRRsets(@, plan.ops)] ELSE b,
            IF sp.outcome = "ok" THEN addCounters(result, ~state.Exists, plan)
            ELSE addError(addCounters(result, ~state.Exists, NoPlan), zoneName,
                          IF sp.outcome = "aborted" THEN "aborted" ELSE "patch"),
            callsOfPatch(cs, zoneName, zoneID, plan.ops, sp, ans.confirmYes, ans.patchOK),
            PlanEntry(state, existingRRsets, plan, sp.outcome, ~state.Exists, sp.asked, sp.sent),
            sp.outcome # "ok")

\* applyRRsets from the return of sendPatch on; the error, if any, is
\* appended to result.Errors by the loop of Apply
patchSent(zoneName, zoneID, state, ans, b, cs, existingRRsets, plan, sp) ==
  endOfZone(zoneName,
            IF sp.sent /\ sp.outcome = "ok"
              THEN [b EXCEPT ![zoneID].RRsets = patchRRsets(@, plan.ops)] ELSE b,
            IF sp.outcome = "ok" THEN addCounters(result, ~state.Exists, plan)
            ELSE addError(addCounters(result, ~state.Exists, plan), zoneName,
                          IF sp.outcome = "aborted" THEN "aborted" ELSE "patch"),
            callsOfPatch(cs, zoneName, zoneID, plan.ops, sp, ans.confirmYes, ans.patchOK),
            PlanEntry(state, existingRRsets, plan, sp.outcome, ~state.Exists, sp.asked, sp.sent),
            sp.outcome # "ok")

\* applyRRsets: the desired state is built and diffed against the record
\* sets of existingZone, then the patch is sent
applyRRsets(zoneName, zoneID, state, ans, b, cs, existingRRsets, plan) ==
  IF plan.err
    THEN endOfZone(zoneName, b,
                   addError(addCounters(result, ~state.Exists, NoPlan), zoneName, "normalize"),
                   cs,
                   PlanEntry(state, existingRRsets, NoPlan, "normalize-failed",
                             ~state.Exists, FALSE, FALSE),
                   TRUE)
    ELSE patchSent(zoneName, zoneID, state, ans, b, cs, existingRRsets, plan,
                   sendPatch(plan.ops, opts, ans.confirmYes, ans.patchOK))

\* applyZone after a CreateZone call that succeeded, or without one
zoneReady(zoneName, zoneID, zoneConfig, state, ans, created, existingRRsets) ==
  applyRRsets(zoneName, zoneID, state, ans,
              IF callsCreateZone(state, opts) THEN [backend EXCEPT ![zoneID] = created]
              ELSE backend,
              IF callsCreateZone(state, opts)
                THEN Append(calls, CreateCall(zoneName, zoneID,
                                              createRequest(zoneID, zoneConfig), TRUE))
                ELSE calls,
              existingRRsets,
              planRRsets(zoneID, zoneConfig, existingRRsets, state))

\* applyZone: CreateZone for a zone that does not exist, then applyRRsets
applyZone(zoneName, zoneID, zoneConfig, state, ans, created) ==
  IF callsCreateZone(state, opts) /\ ~ans.createOK
    THEN endOfZone(zoneName, backend, addError(result, zoneName, "create"),
                   Append(calls, CreateCall(zoneName, zoneID,
                                             createRequest(zoneID, zoneConfig), FALSE)),
                   PlanEntry(state, <<>>, NoPlan, "create-failed", FALSE, FALSE, FALSE),
                   TRUE)
    ELSE zoneReady(zoneName, zoneID, zoneConfig, state, ans, created,
                   existingZoneOf(zoneID, state, opts, created).RRsets)

\* the body of the last loop of Apply for one zone key
applyOne(zoneName, zoneID, zoneConfig, state, ans) ==
  applyZone(zoneName, zoneID, zoneConfig, state, ans,
            createdZone(createRequest(zoneID, zoneConfig), ans.createdRRsets))

\* one iteration of the last loop of Apply: applyZone, applyRRsets and
\* sendPatch for one zone key.  createOK, createdRRsets, confirmYes and
\* patchOK are the answers of the backend and of the confirmation callback.
ApplyZone(zoneName, createOK, createdRRsets, confirmYes, patchOK) ==
  /\ pc = "apply"
  /\ zoneName \in toApply
  /\ applyOne(zoneName, CanonicalZoneName(zoneName), NormalizeZone(cfg[zoneName]),
              StateOf(existingZones, CanonicalZoneName(zoneName)),
              [createOK |-> createOK, createdRRsets |-> createdRRsets,
               confirmYes |-> confirmYes, patchOK |-> patchOK])
  /\ UNCHANGED <<cfg, opts, backend0, pc, toFetch, existingZones, zoneData, ret, verrs,
                 run, prev>>
  /\ UNCHANGED <<args, out>>

\* the answers that can make a difference in the current run
Answers(relevant) == IF relevant THEN BOOLEAN ELSE {TRUE}

\* the record sets a CreateZone response to this zone key may carry
responsesFor(zoneName) ==
  IF callsCreateZone(StateOf(existingZones, CanonicalZoneName(zoneName)), opts)
    THEN createdRRsetsChoices(createRequest(CanonicalZoneName(zoneName),
                                            NormalizeZone(cfg[zoneName])))
    ELSE {<<>>}

ApplyZoneStep ==
  \E zoneName \in toApply :
    \E createOK \in Answers(callsCreateZone(StateOf(existingZones,
                                                    CanonicalZoneName(zoneName)), opts)),
       patchOK \in Answers(~opts.DryRun),
       confirmYes \in Answers(~opts.DryRun /\ asksConfirmation(opts)),
       createdRRsets \in responsesFor(zoneName) :
      ApplyZone(zoneName, createOK, createdRRsets, confirmYes, patchOK)

\* the last loop is over: Apply returns (result, nil)
ApplyReturn ==
  /\ pc = "apply"
  /\ toApply = {}
  /\ pc' = "done"
  /\ ret' = "result"
  /\ UNCHANGED <<cfg, opts, backend, backend0, toFetch, toApply, existingZones, zoneData,
                 result, verrs, calls, plans, run, prev>>
  /\ UNCHANGED <<args, out>>

\* Apply is invoked again with the same configuration
ApplyAgain ==
  /\ pc = "done"
  /\ run < MaxRuns
  /\ run' = run + 1
  /\ prev' = [valid |-> TRUE, opts |-> opts, ret |-> ret, result |-> result]
  /\ opts' \in OptionsPool
  /\ pc' = "fetch"
  /\ toFetch' = DOMAIN cfg
  /\ toApply' = {}
  /\ existingZones' = <<>>
  /\ zoneData' = <<>>
  /\ result' = EmptyResult
  /\ ret' = "none"
  /\ verrs' = {}
  /\ calls' = <<>>
  /\ plans' = <<>>
  /\ backend0' = backend
  /\ UNCHANGED <<cfg, backend>>
  /\ UNCHANGED <<args, out>>

GetZoneOKStep == \E zoneName \in toFetch : GetZoneOK(zoneName)

GetZoneErrStep == \E zoneName \in toFetch : GetZoneErr(zoneName)

Next ==
  \/ GetZoneOKStep
  \/ GetZoneErrStep
  \/ ValidateConfig
  \/ ApplyZoneStep
  \/ ApplyReturn

Spec == Init /\ [][Next]_vars

\* ------------------------------------------------------------------------
\* Apply invoked MaxRuns times in a row with an unchanged configuration
\* ------------------------------------------------------------------------

RerunConfigs ==
  {ZoneA :> ZoneCfg(<<<<"n">>>>, <<InputWA1>>),
   ZoneA :> ZoneCfg(<<<<"n">>>>, <<InputWA2, InputTXT>>),
   ZoneA :> ZoneCfg(<<>>, <<InputTXT>>),
   (ZoneA :> ZoneCfg(<<>>, <<InputWA1>>)) @@ (ZoneADot :> ZoneCfg(<<>>, <<InputTXT>>)),
   (ZoneA :> ZoneCfg(<<<<"n">>>>, <<InputWA1>>))
     @@ (ZoneB :> ZoneCfg(<<<<"n", ".">>>>, <<InputWA1>>))}

RerunZones(zoneID) ==
  {NoZone, ExistingZone(zoneID, accountName, <<>>),
   ExistingZone(zoneID, accountName,
                <<Existing(<<"w", ".">> \o zoneID, <<"A">>, 300, <<<<"1">>>>, Managed),
                  Existing(<<"x", ".">> \o zoneID, <<"A">>, 300, <<<<"1">>>>, <<>>)>>)}

InitRerun ==
  /\ cfg \in RerunConfigs
  /\ opts \in OptionsPool
  /\ backend \in {b \in BackendFor(cfg) : \A id \in ZoneIDs : b[id] \in RerunZones(id)}
  /\ run = 1
  /\ prev = NoPrev
  /\ args = <<>>
  /\ out = <<>>
  /\ ApplyEntry

NextRerun == Next \/ ApplyAgain

SpecRerun == InitRerun /\ [][NextRerun]_vars

\* ------------------------------------------------------------------------
\* Properties
\* ------------------------------------------------------------------------

\* the record set has a comment whose account is the configured account
HasOwnerComment(r) == \E i \in 1..Len(r.Comments) : r.Comments[i].Account = "zone-manager"

KeyOf(r) == ToLower(r.Name) \o <<"/">> \o ToUpper(r.Type)

Range(seq) == {seq[i] : i \in 1..Len(seq)}

CallsOf(ops) == {i \in 1..Len(calls) : calls[i].op \in ops}

Mutating == {"CreateZone", "PatchZone"}

\* the record sets the fetch phase saw in the zone (none when it is absent)
FetchedRRsets(zoneID) ==
  IF zoneID \in DOMAIN zoneData THEN Range(zoneData[zoneID].RRsets) ELSE {}

\* the record sets of the zone at the start of the run
StartRRsets(zoneID) ==
  IF backend0[zoneID].Exists THEN Range(backend0[zoneID].RRsets) ELSE {}

NowRRsets(zoneID) ==
  IF backend[zoneID].Exists THEN Range(backend[zoneID].RRsets) ELSE {}

\* C1: no operation of any PatchZone request targets a key whose record set
\* in the fetched zone carries no comment with the configured account, and
\* every record set that is unmanaged at the start of the run is still in the
\* backend, unchanged, at every later point of the run.
C1_UnmanagedUntouched ==
  /\ \A i \in CallsOf({"PatchZone"}) :
       \A op \in Range(calls[i].rrsets), r \in FetchedRRsets(calls[i].zone) :
         KeyOf(op) = KeyOf(r) => HasOwnerComment(r)
  /\ \A zoneID \in ZoneIDs :
       \A r \in StartRRsets(zoneID) : ~HasOwnerComment(r) => r \in NowRRsets(zoneID)

\* a real run has patched a zone in which an unmanaged record set sits under
\* a key for which the configuration declares other content
C1_Witness ==
  /\ pc = "done"
  /\ ret = "result"
  /\ \E i \in CallsOf({"PatchZone"}) :
       /\ calls[i].ok
       /\ \E r \in StartRRsets(calls[i].zone) :
            /\ ~HasOwnerComment(r)
            /\ LET built == buildDesiredRRsets(calls[i].zone, NormalizeZone(cfg[calls[i].key]),
                                               StateOf(existingZones, calls[i].zone))
               IN /\ ~built.err
                  /\ KeyOf(r) \in DOMAIN built.desired
                  /\ built.desired[KeyOf(r)].Records # r.Records

RECURSIVE SumOver(_, _)
SumOver(S, f) ==
  IF S = {} THEN 0
  ELSE LET x == CHOOSE y \in S : TRUE IN f[x] + SumOver(S \ {x}, f)

\* the zone keys whose zone is absent from the backend at the start of the run
AbsentAtStart == {z \in DOMAIN cfg : ~backend0[CanonicalZoneName(z)].Exists}

\* C4: in a dry run Apply never calls CreateZone or PatchZone and never asks
\* for confirmation, the backend stays as it was, ApplyResult.Errors stays
\* empty, and the returned counters report the plan: ZonesCreated counts the
\* configured zones that do not exist, the record-set counters add up to the
\* planned operations.
C4_DryRunFrame ==
  opts.DryRun =>
    /\ CallsOf({"CreateZone", "PatchZone", "Confirm"}) = {}
    /\ backend = backend0
    /\ result.Errors = <<>>
    /\ ret = "result" =>
         /\ result.ZonesCreated = Cardinality(AbsentAtStart)
         /\ DOMAIN plans = DOMAIN cfg
         /\ result.RRsetsCreated + result.RRsetsUpdated + result.RRsetsDeleted
              = SumOver(DOMAIN plans, [z \in DOMAIN plans |-> Len(plans[z].ops)])

\* a dry run has returned a result that plans a zone creation and record
\* set changes
C4_Witness ==
  /\ opts.DryRun
  /\ ret = "result"
  /\ result.ZonesCreated > 0
  /\ result.RRsetsCreated > 0
  /\ \E z \in DOMAIN plans : plans[z].updated + plans[z].deleted > 0

\* the desired map of a processed zone key
DesiredOf(z) ==
  buildDesiredRRsets(CanonicalZoneName(z), NormalizeZone(cfg[z]), plans[z].state).desired

DeletesAt(z, key) ==
  {i \in 1..Len(plans[z].ops) :
     plans[z].ops[i].ChangeType = "DELETE" /\ KeyOf(plans[z].ops[i]) = key}

OpsAt(z, key) == {i \in 1..Len(plans[z].ops) : KeyOf(plans[z].ops[i]) = key}

\* the zone keys for which applyRRsets ran
Planned == {z \in DOMAIN plans : plans[z].outcome \notin {"create-failed", "normalize-failed"}}

\* C5: for every zone processed, each managed record set of the existing
\* zone whose key is absent from the desired map yields exactly one DELETE
\* operation in the zone's patch and no other operation, RRsetsDeleted counts
\* these keys once each, and an unmanaged record set whose key is absent from
\* the desired map yields no operation.
C5_OrphanCleanup ==
  \A z \in Planned :
    /\ \A r \in Range(plans[z].existing) :
         KeyOf(r) \notin DOMAIN DesiredOf(z) =>
           IF HasOwnerComment(r)
             THEN /\ Cardinality(DeletesAt(z, KeyOf(r))) = 1
                  /\ OpsAt(z, KeyOf(r)) = DeletesAt(z, KeyOf(r))
             ELSE OpsAt(z, KeyOf(r)) = {}
    /\ plans[z].deleted
         = Cardinality({KeyOf(r) : r \in {e \in Range(plans[z].existing) :
                                           HasOwnerComment(e) /\ KeyOf(e) \notin DOMAIN DesiredOf(z)}})
    /\ plans[z].deleted
         = Cardinality({i \in 1..Len(plans[z].ops) : plans[z].ops[i].ChangeType = "DELETE"})

\* a zone was processed that holds a managed orphan and an unmanaged record
\* set outside the desired map
C5_Witness ==
  \E z \in Planned :
    /\ plans[z].deleted = 1
    /\ plans[z].sent
    /\ \E r \in Range(plans[z].existing) :
         ~HasOwnerComment(r) /\ KeyOf(r) \notin DOMAIN DesiredOf(z)

ErrorsOf(z) == {i \in 1..Len(result.Errors) : result.Errors[i].zone = z}

\* C6 as claimed: when the confirmation callback declines for a zone, no
\* CreateZone and no PatchZone has been issued for that zone during the run.
C6_DeclineNoMutation ==
  \A z \in DOMAIN plans :
    plans[z].outcome = "aborted" =>
      /\ \E i \in ErrorsOf(z) : result.Errors[i].kind = "aborted"
      /\ \A i \in CallsOf(Mutating) : calls[i].key # z

\* C7: if GetZone returns an error for a configured zone, Apply returns an
\* error and no result right after that call, and the run has issued no
\* CreateZone and no PatchZone, whatever was fetched before.
C7_FetchErrorFatal ==
  (\E i \in CallsOf({"GetZone"}) : ~calls[i].ok) =>
    /\ pc = "done"
    /\ ret = "fetch-error"
    /\ ~calls[Len(calls)].ok
    /\ \A i \in 1..Len(calls) : calls[i].op = "GetZone" /\ (i < Len(calls) => calls[i].ok)
    /\ backend = backend0

\* GetZone failed after another zone had been fetched successfully
C7_Witness ==
  /\ ret = "fetch-error"
  /\ Len(calls) >= 2
  /\ calls[1].ok
  /\ ~calls[Len(calls)].ok

\* the zone keys Validate found nothing wrong with
ValidKeys == {z \in DOMAIN cfg : \A e \in verrs : e.zone # z}

\* C8: if validation reports a violation for any zone, Apply returns the
\* validation error and no result, and no CreateZone or PatchZone is issued
\* for any zone, the zones with a valid configuration included.
C8_ValidationFatal ==
  verrs # {} =>
    /\ pc = "done"
    /\ ret = "validation-error"
    /\ CallsOf(Mutating) = {}
    /\ plans = <<>>
    /\ backend = backend0

\* validation failed for one zone while another zone's configuration is valid
\* and would have led to changes
C8_Witness ==
  /\ ret = "validation-error"
  /\ \E z \in ValidKeys :
       ~opts.DryRun /\ (~backend0[CanonicalZoneName(z)].Exists \/ Len(cfg[z].RRsets) > 0)

\* C9 as claimed: when validation fails, Apply has made no backend call at
\* all, GetZone included.
C9_NoNetworkBeforeValidation ==
  ret = "validation-error" => CallsOf({"GetZone", "CreateZone", "PatchZone"}) = {}

\* C9 amended: when validation fails, the backend calls of the run are
\* exactly one successful GetZone per configured zone key, all issued before
\* the validation, which is the last step of the run.
C9_OnlyFetchBeforeValidation ==
  ret = "validation-error" =>
    /\ Len(calls) = Cardinality(DOMAIN cfg) + 1
    /\ calls[Len(calls)].op = "Validate"
    /\ \A z \in DOMAIN cfg :
         Cardinality({i \in 1..(Len(calls) - 1) :
                        /\ calls[i].op = "GetZone"
                        /\ calls[i].ok
                        /\ calls[i].key = z
                        /\ calls[i].zone = CanonicalZoneName(z)}) = 1

\* validation failed in a run over two zone keys
C9_Witness ==
  /\ ret = "validation-error"
  /\ Cardinality(DOMAIN cfg) = 2
  /\ Len(calls) = 3

\* the plan applyZone makes for a zone key from the state of the fetch phase
\* and the zone the diff ran against
PlanFromFetch(z) ==
  planRRsets(CanonicalZoneName(z), NormalizeZone(cfg[z]), plans[z].existing,
             zoneStateOf(backend0[CanonicalZoneName(z)]))

\* C10: in the apply phase a failed CreateZone or PatchZone adds exactly one
\* error, attributed to its zone, to ApplyResult.Errors; Apply goes on to
\* every other configured zone and returns the result without an error; what
\* is planned and counted for a zone depends on the fetched state of that
\* zone only, not on the failure of another zone.
C10_ZoneErrorsIsolated ==
  /\ \A z \in DOMAIN plans :
       /\ plans[z].outcome \in {"create-failed", "patch-failed"} =>
            Cardinality(ErrorsOf(z)) = 1
       /\ plans[z].outcome = "ok" => ErrorsOf(z) = {}
       /\ plans[z].outcome # "create-failed" =>
            /\ plans[z].ops = PlanFromFetch(z).ops
            /\ (backend0[CanonicalZoneName(z)].Exists =>
                  plans[z].existing = backend0[CanonicalZoneName(z)].RRsets)
  /\ pc = "apply" => DOMAIN plans = DOMAIN cfg \ toApply
  /\ (pc = "done" /\ verrs = {} /\ ret # "fetch-error") =>
       /\ ret = "result"
       /\ DOMAIN plans = DOMAIN cfg
       /\ Len(result.Errors) = Cardinality({z \in DOMAIN plans : plans[z].outcome # "ok"})
       /\ result.RRsetsCreated = SumOver(DOMAIN plans, [z \in DOMAIN plans |-> plans[z].created])

\* a run returned a result in which one zone failed at the backend and
\* another zone was patched successfully
C10_Witness ==
  /\ ret = "result"
  /\ \E y, z \in DOMAIN plans :
       /\ plans[y].outcome \in {"create-failed", "patch-failed"}
       /\ plans[z].outcome = "ok"
       /\ plans[z].sent

Counters(res) ==
  <<res.ZonesCreated, res.RRsetsCreated, res.RRsetsUpdated, res.RRsetsDeleted>>

\* the previous run was a real run that returned a result without errors
PrevCleanReal ==
  /\ prev.valid
  /\ ~prev.opts.DryRun
  /\ prev.ret = "result"
  /\ prev.result.Errors = <<>>

\* C2 as claimed: after a real run without errors, a second real run with
\* the unchanged configuration sends no CreateZone or PatchZone and reports
\* zero for all four counters.
C2_Idempotent ==
  (PrevCleanReal /\ ~opts.DryRun /\ \A i \in 1..Len(calls) : calls[i].ok) =>
    /\ CallsOf(Mutating) = {}
    /\ ret = "result" => Counters(result) = <<0, 0, 0, 0>>

\* C3 as claimed: a dry run and a real run without errors that start from
\* the same backend state report the same four counters.
C3_DryRunParity ==
  (/\ prev.valid
   /\ prev.opts.DryRun
   /\ prev.ret = "result"
   /\ ~opts.DryRun
   /\ ret = "result"
   /\ result.Errors = <<>>) => Counters(result) = Counters(prev.result)


\* ------------------------------------------------------------------------
\* Ordering of the phases
\* ------------------------------------------------------------------------

\* the positions of the validation in the log of the run
ValidateAt == {i \in 1..Len(calls) : calls[i].op = "Validate"}

\* C11: within one Apply invocation validation runs at most once, and
\* exactly once as soon as the fetch phase is over; when it runs, every
\* configured zone key has had its GetZone call; every GetZone call precedes
\* the validation and every CreateZone, PatchZone and confirmation follows
\* it, so no GetZone is issued after a mutating call.
C11_FetchValidateMutate ==
  /\ Cardinality(ValidateAt) <= 1
  /\ (pc = "apply" \/ ret \in {"result", "validation-error"}) => Cardinality(ValidateAt) = 1
  /\ \A v \in ValidateAt :
       /\ \A z \in DOMAIN cfg :
            \E i \in 1..(v - 1) : calls[i].op = "GetZone" /\ calls[i].key = z /\ calls[i].ok
       /\ \A i \in CallsOf({"GetZone"}) : i < v
       /\ \A i \in CallsOf({"CreateZone", "PatchZone", "Confirm"}) : i > v
  /\ \A m \in CallsOf(Mutating) :
       /\ ValidateAt # {}
       /\ \A i \in CallsOf({"GetZone"}) : i < m

\* a run over two zone keys has fetched both, validated and then created a
\* zone and patched
C11_Witness ==
  /\ ret = "result"
  /\ Cardinality(DOMAIN cfg) = 2
  /\ Cardinality(CallsOf({"GetZone"})) = 2
  /\ CallsOf({"CreateZone"}) # {}
  /\ CallsOf({"PatchZone"}) # {}

\* ------------------------------------------------------------------------
\* Zones of another account
\* ------------------------------------------------------------------------

\* the zone keys whose zone exists at the start of the run with an account
\* other than the configured one
Foreign ==
  {z \in DOMAIN cfg : /\ backend0[CanonicalZoneName(z)].Exists
                      /\ backend0[CanonicalZoneName(z)].Account # "zone-manager"}

\* the violations of a rule reported for a zone key
Reported(z, rule) == {e \in verrs : e.zone = z /\ e.rule = rule}

ConfiguredKeys(z) ==
  {ToLower(buildFQDN(cfg[z].RRsets[i].Name, CanonicalZoneName(z)))
     \o <<"/">> \o ToUpper(cfg[z].RRsets[i].Type) : i \in 1..Len(cfg[z].RRsets)}

\* C14 as claimed: a run whose zones all exist under another account, with a
\* configuration that has no other fault, returns a result without errors;
\* no NS operation is planned and RRsetsCreated counts the configured record
\* sets that are absent from the zones.
C14_UnmanagedZoneApplied ==
  (/\ pc = "done"
   /\ ret # "fetch-error"
   /\ Foreign = DOMAIN cfg
   /\ \A e \in verrs : e.rule = "not-managed") =>
    /\ ret = "result"
    /\ result.Errors = <<>>
    /\ \A z \in DOMAIN plans : \A i \in 1..Len(plans[z].ops) : plans[z].ops[i].Type # NSType
    /\ result.RRsetsCreated =
         SumOver(DOMAIN cfg,
                 [z \in DOMAIN cfg |->
                    Cardinality(ConfiguredKeys(z)
                                  \ {KeyOf(r) : r \in StartRRsets(CanonicalZoneName(z))})])

\* ------------------------------------------------------------------------
\* Validate on its own: the configuration and the state map are drawn from
\* bounded sets and Validate is applied to them
\* ------------------------------------------------------------------------

\* the longest rrsets list handed to Validate
MaxValidated == 3

InputSOA == RRsetInput(<<>>, <<"S", "o", "a">>, [shape |-> "nil"], NoTTL)

InputBlank == RRsetInput(<<>>, <<>>, [shape |-> "nil"], NoTTL)

InputBadShape == RRsetInput(<<"x">>, <<"A">>, [shape |-> "other"], NoTTL)

InputEmptyContent ==
  RRsetInput(<<"x">>, <<"a">>,
             [shape |-> "list", items |-> <<StrItem(<<>>), MapItem(<<>>, TRUE)>>],
             NoTTL)

ValidatedPool ==
  <<InputWA1, InputWA2, InputNS, InputSOA, InputBlank, InputBadShape, InputEmptyContent>>

\* the lists of at most n entries of the pool, in any order, with repetitions
ValidatedLists(n) ==
  {[i \in 1..Len(ix) |-> ValidatedPool[ix[i]]] :
     ix \in UNION {[1..k -> 1..Len(ValidatedPool)] : k \in 0..n}}

ValidatedZones ==
  {[Kind |-> kind, Nameservers |-> ns, RRsets |-> l] :
     kind \in {"", "Master", "Bogus"},
     ns \in {<<>>, <<<<>>, <<"n">>>>},
     l \in ValidatedLists(MaxValidated)}

ValidatedConfigs ==
  {ZoneA :> za : za \in ValidatedZones}
    \cup {(ZoneA :> za) @@ (ZoneB :> zb) :
            za \in {ZoneCfg(<<>>, l) : l \in ValidatedLists(MaxValidated)},
            zb \in {ZoneCfg(<<<<"n">>>>, <<InputWA1>>), ZoneCfg(<<>>, <<InputWA2>>)}}

\* what the state map holds for a zone key: no entry, or a ZoneState
StateLabels(zoneName) ==
  IF zoneName = ZoneA THEN {"missing", "absent", "managed", "unmanaged"}
  ELSE {"missing", "managed"}

StateOfLabel(label) ==
  [Exists |-> label # "absent", IsManaged |-> label = "managed"]

StateMap(f) ==
  [id \in {CanonicalZoneName(z) : z \in {y \in DOMAIN f : f[y] # "missing"}} |->
     StateOfLabel(f[CHOOSE z \in DOMAIN f : CanonicalZoneName(z) = id])]

StateMaps(c) ==
  {StateMap(f) : f \in {g \in [DOMAIN c -> {"missing", "absent", "managed", "unmanaged"}] :
                          \A z \in DOMAIN c : g[z] \in StateLabels(z)}}

InitValidate ==
  /\ cfg \in ValidatedConfigs
  /\ existingZones \in StateMaps(cfg)
  /\ pc = "validate"
  /\ opts = [DryRun |-> TRUE, AutoConfirm |-> FALSE, HasConfirmFn |-> FALSE]
  /\ backend = [id \in ZoneIDs |-> NoZone]
  /\ backend0 = backend
  /\ toFetch = {}
  /\ toApply = {}
  /\ zoneData = <<>>
  /\ result = EmptyResult
  /\ ret = "none"
  /\ verrs = {}
  /\ calls = <<>>
  /\ plans = <<>>
  /\ run = 1
  /\ prev = NoPrev
  /\ args = <<>>
  /\ out = <<>>

\* cfg.Validate(existingZones): nil, or the error with all violations
ValidateCall ==
  /\ pc = "validate"
  /\ verrs' = Validate(cfg, existingZones)
  /\ ret' = IF Validate(cfg, existingZones) = {} THEN "nil" ELSE "validation-error"
  /\ pc' = "validated"
  /\ UNCHANGED <<cfg, opts, backend, backend0, toFetch, toApply, existingZones, zoneData,
                 result, calls, plans, run, prev>>
  /\ UNCHANGED <<args, out>>

SpecValidate == InitValidate /\ [][ValidateCall]_vars

\* the zone has an entry with Exists = TRUE in the state map
ExistsIn(z) ==
  /\ CanonicalZoneName(z) \in DOMAIN existingZones
  /\ existingZones[CanonicalZoneName(z)].Exists

\* C12: Validate reports 'nameservers are required' for a zone exactly when
\* the zone's state has Exists = FALSE, or the zone has no entry in the state
\* map, and its nameservers list is empty; in particular a zone that exists
\* gets no such violation.  The violation is reported once.
C12_NameserversRequired ==
  pc = "validated" =>
    \A z \in DOMAIN cfg :
      /\ Reported(z, "nameservers-required") # {}
           <=> (~ExistsIn(z) /\ Len(cfg[z].Nameservers) = 0)
      /\ Cardinality(Reported(z, "nameservers-required")) <= 1

\* Validate was applied to two zones without nameservers: one has no entry in
\* the state map and gets the violation, the other exists and does not
C12_Witness ==
  /\ pc = "validated"
  /\ CanonicalZoneName(ZoneB) \notin DOMAIN existingZones
  /\ ZoneB \in DOMAIN cfg
  /\ Len(cfg[ZoneB].Nameservers) = 0
  /\ Reported(ZoneB, "nameservers-required") # {}
  /\ ExistsIn(ZoneA)
  /\ Len(cfg[ZoneA].Nameservers) = 0
  /\ Reported(ZoneA, "nameservers-required") = {}

\* the record set's type is NS or SOA, in any letter case
Prohibited(r) == ToUpper(r.Type) \in {<<"N", "S">>, <<"S", "O", "A">>}

\* two record sets have the same (lower-cased name, upper-cased type) pair
SamePair(r, q) == ToLower(r.Name) = ToLower(q.Name) /\ ToUpper(r.Type) = ToUpper(q.Type)

\* the rules record set i of the list violates; with skip, a record set of
\* type NS or SOA violates the prohibition only
ViolatedRules(rrsets, i, skip) ==
  (IF ToUpper(rrsets[i].Type) = <<"N", "S">> THEN {"ns-prohibited"} ELSE {})
  \cup (IF ToUpper(rrsets[i].Type) = <<"S", "O", "A">> THEN {"soa-prohibited"} ELSE {})
  \cup (IF skip /\ Prohibited(rrsets[i]) THEN {}
        ELSE (IF rrsets[i].Name = <<>> THEN {"name-required"} ELSE {})
          \cup (IF rrsets[i].Type = <<>> THEN {"type-required"} ELSE {})
          \cup (IF \E k \in 1..(i - 1) : SamePair(rrsets[k], rrsets[i])
                  THEN {"duplicate"} ELSE {})
          \cup (IF normalizeRecords(rrsets[i].Records).err THEN {"records-invalid"}
                ELSE IF Len(normalizeRecords(rrsets[i].Records).recs) = 0
                  THEN {"records-required"}
                ELSE {}))

\* the records of record set i that have an empty content
EmptyContents(rrsets, i, skip) ==
  IF (skip /\ Prohibited(rrsets[i])) \/ normalizeRecords(rrsets[i].Records).err THEN {}
  ELSE {j \in 1..Len(normalizeRecords(rrsets[i].Records).recs) :
          normalizeRecords(rrsets[i].Records).recs[j].Content = <<>>}

\* the entries the rules call for, for one zone key
ExpectedOf(z, skip) ==
  (IF ~ExistsIn(z) /\ Len(cfg[z].Nameservers) = 0
     THEN {[zone |-> z, rule |-> "nameservers-required", i |-> 0, j |-> 0]} ELSE {})
  \cup (IF ExistsIn(z) /\ ~existingZones[CanonicalZoneName(z)].IsManaged
          THEN {[zone |-> z, rule |-> "not-managed", i |-> 0, j |-> 0]} ELSE {})
  \cup (IF cfg[z].Kind \notin {"", "Native", "Master", "Slave", "Producer", "Consumer"}
          THEN {[zone |-> z, rule |-> "invalid-kind", i |-> 0, j |-> 0]} ELSE {})
  \cup {[zone |-> z, rule |-> "nameserver-empty", i |-> i, j |-> 0] :
          i \in {k \in 1..Len(cfg[z].Nameservers) : cfg[z].Nameservers[k] = <<>>}}
  \cup UNION {{[zone |-> z, rule |-> rule, i |-> i, j |-> 0] :
                 rule \in ViolatedRules(cfg[z].RRsets, i, skip)} :
              i \in 1..Len(cfg[z].RRsets)}
  \cup UNION {{[zone |-> z, rule |-> "content-empty", i |-> i, j |-> j] :
                 j \in EmptyContents(cfg[z].RRsets, i, skip)} :
              i \in 1..Len(cfg[z].RRsets)}

Expected(skip) == UNION {ExpectedOf(z, skip) : z \in DOMAIN cfg}

C19_DuplicatePairs ==
  pc = "validated" =>
    \A z \in DOMAIN cfg : \A i \in 1..Len(cfg[z].RRsets) :
      (\E e \in Reported(z, "duplicate") : e.i = i)
        <=> \E k \in 1..(i - 1) : SamePair(cfg[z].RRsets[k], cfg[z].RRsets[i])

\* C19 amended: a duplicate violation is reported for record set i of a zone
\* exactly when its type is neither NS nor SOA and an earlier record set of
\* the same zone has the same pair; record sets of other zones do not count.
C19_DuplicatePairsButProhibited ==
  pc = "validated" =>
    \A z \in DOMAIN cfg : \A i \in 1..Len(cfg[z].RRsets) :
      (\E e \in Reported(z, "duplicate") : e.i = i)
        <=> /\ ~Prohibited(cfg[z].RRsets[i])
            /\ \E k \in 1..(i - 1) : SamePair(cfg[z].RRsets[k], cfg[z].RRsets[i])

\* three record sets of one zone have the same pair, the second and the third
\* are reported; a record set of another zone with that pair is not
C19_Witness ==
  /\ pc = "validated"
  /\ DOMAIN cfg = {ZoneA, ZoneB}
  /\ Len(cfg[ZoneA].RRsets) = 3
  /\ \A i \in 2..3 : SamePair(cfg[ZoneA].RRsets[1], cfg[ZoneA].RRsets[i])
  /\ {e.i : e \in Reported(ZoneA, "duplicate")} = {2, 3}
  /\ SamePair(cfg[ZoneA].RRsets[1], cfg[ZoneB].RRsets[1])
  /\ Reported(ZoneB, "duplicate") = {}

\* ------------------------------------------------------------------------
\* Apply on zones that hold an apex NS record set
\* ------------------------------------------------------------------------

InputSubNS == RRsetInput(<<"s">>, <<"N", "s">>, Str(<<"n", ".">>), NoTTL)

InputApexSOA == RRsetInput(<<"@">>, <<"s", "o", "a">>, Str(<<"s">>), NoTTL)

NSInputPool == <<InputWA1, InputNS, InputSubNS, InputApexSOA>>

\* the lists of at most n entries of the pool, in the order of the pool
NSInputLists(n) ==
  {[i \in 1..Len(ix) |-> NSInputPool[ix[i]]] :
     ix \in {jx \in UNION {[1..k -> 1..Len(NSInputPool)] : k \in 0..n} :
               \A i \in 1..(Len(jx) - 1) : jx[i] < jx[i + 1]}}

NSNameservers == {<<>>, <<<<"n">>>>, <<<<"n">>, <<"x", ".">>>>}

NSConfigs ==
  {ZoneA :> ZoneCfg(ns, l) : ns \in NSNameservers, l \in NSInputLists(MaxRRsets)}

\* the apex NS record set of an existing zone: none, written by the tool,
\* or generated by the server
ExistingNS(zoneID) ==
  {<<>>,
   <<Existing(zoneID, NSType, NSTTL, <<<<"n", ".">> \o zoneID>>, Managed)>>,
   <<Existing(zoneID, NSType, NSTTL, <<<<"x", ".">>, <<"n", ".">> \o zoneID>>, Managed)>>,
   <<Existing(zoneID, NSType, NSTTL, <<<<"o", ".">>>>, Managed)>>,
   <<Existing(zoneID, NSType, NSTTL, <<<<"o", ".">>>>, <<>>)>>}

NSZones(zoneID) ==
  {NoZone, ExistingZone(zoneID, "other-owner", <<>>)}
    \cup {ExistingZone(zoneID, accountName, ns \o w) :
            ns \in ExistingNS(zoneID), w \in ExistingW(zoneID)}

InitNS ==
  /\ cfg \in NSConfigs
  /\ opts \in OptionsPool
  /\ backend \in {b \in [ZoneIDs -> {NoZone} \cup NSZones(ZoneADot)] :
                    \A id \in ZoneIDs : b[id] \in (IF id = ZoneADot THEN NSZones(id)
                                                   ELSE {NoZone})}
  /\ run = 1
  /\ prev = NoPrev
  /\ args = <<>>
  /\ out = <<>>
  /\ ApplyEntry

SpecNS == InitNS /\ [][Next]_vars

\* the key of the NS record set at the apex of the zone of a zone key
ApexNS(z) == CanonicalZoneName(z) \o <<"/", "N", "S">>

\* C16: for an existing zone whose configuration omits nameservers, the
\* patch of the run holds no operation, neither REPLACE nor DELETE, for the
\* NS record set at the apex of the zone, whether or not that record set
\* carries the ownership comment.
C16_NSLeftAsConfigured ==
  \A z \in Planned :
    plans[z].state.Exists /\ Len(cfg[z].Nameservers) = 0 => OpsAt(z, ApexNS(z)) = {}

\* a nameserver made absolute: the zone name is appended unless the name
\* ends with a dot
Completed(ns, zoneID) == IF ns[Len(ns)] = "." THEN ns ELSE ns \o <<".">> \o zoneID

NSRecordsOf(z) ==
  {[Content |-> Completed(cfg[z].Nameservers[i], CanonicalZoneName(z)), Disabled |-> FALSE] :
     i \in 1..Len(cfg[z].Nameservers)}

\* the run on the zone key was real and ended without an error for it
Succeeded(z) ==
  /\ ~opts.DryRun
  /\ z \in DOMAIN plans
  /\ plans[z].outcome = "ok"
  /\ ErrorsOf(z) = {}

\* C17: for an existing managed zone with nameservers configured, the
\* desired state holds exactly one NS record set at the apex, with TTL 300
\* and the nameservers made absolute as its records, and after a successful
\* real run the NS record set at the apex of the zone in the backend has
\* exactly those records.
C17_NameserversControlNS ==
  \A z \in Planned :
    plans[z].state.Exists /\ plans[z].state.IsManaged /\ Len(cfg[z].Nameservers) > 0 =>
      /\ Cardinality({k \in DOMAIN DesiredOf(z) :
                        /\ DesiredOf(z)[k].Type = <<"N", "S">>
                        /\ ToLower(DesiredOf(z)[k].Name) = CanonicalZoneName(z)}) = 1
      /\ ApexNS(z) \in DOMAIN DesiredOf(z)
      /\ DesiredOf(z)[ApexNS(z)].TTL = 300
      /\ Range(DesiredOf(z)[ApexNS(z)].Records) = NSRecordsOf(z)
      /\ Len(DesiredOf(z)[ApexNS(z)].Records) = Len(cfg[z].Nameservers)
      /\ Succeeded(z) =>
           /\ Cardinality({r \in NowRRsets(CanonicalZoneName(z)) : KeyOf(r) = ApexNS(z)}) = 1
           /\ \A r \in NowRRsets(CanonicalZoneName(z)) :
                KeyOf(r) = ApexNS(z) =>
                  /\ Range(r.Records) = NSRecordsOf(z)
                  /\ Len(r.Records) = Len(cfg[z].Nameservers)

\* the REPLACE operations planned or sent for a zone key
Replaces(z) ==
  {plans[z].ops[i] : i \in {k \in 1..Len(plans[z].ops) :
                              plans[z].ops[k].ChangeType = "REPLACE"}}
    \cup UNION {{calls[c].rrsets[i] :
                   i \in {k \in 1..Len(calls[c].rrsets) :
                            calls[c].rrsets[k].ChangeType = "REPLACE"}} :
                c \in {k \in CallsOf({"PatchZone"}) : calls[k].key = z}}

\* C18: validation reports every record set whose type is NS or SOA in any
\* letter case and the run ends there; so no REPLACE operation of a run has
\* the type SOA, and a REPLACE of type NS is at the apex of the zone and
\* holds the zone's nameservers, made absolute, with TTL 300.
C18_NoProhibitedTypes ==
  /\ ValidateAt # {} =>
       \A z \in DOMAIN cfg : \A i \in 1..Len(cfg[z].RRsets) :
         Prohibited(cfg[z].RRsets[i]) =>
           /\ \E e \in Reported(z, "ns-prohibited") \cup Reported(z, "soa-prohibited") : e.i = i
           /\ ret = "validation-error"
           /\ plans = <<>>
  /\ \A z \in DOMAIN plans : \A op \in Replaces(z) :
       /\ ToUpper(op.Type) # <<"S", "O", "A">>
       /\ ToUpper(op.Type) = <<"N", "S">> =>
            /\ ToLower(op.Name) = CanonicalZoneName(z)
            /\ Len(cfg[z].Nameservers) > 0
            /\ Range(op.Records) = NSRecordsOf(z)
            /\ Len(op.Records) = Len(cfg[z].Nameservers)
            /\ op.TTL = 300

\* validation has rejected a record set of type "Ns" below the apex and a
\* record set of type "soa", and the run ended without a plan
C18_Witness ==
  /\ ret = "validation-error"
  /\ cfg[ZoneA].RRsets = <<InputSubNS, InputApexSOA>>
  /\ \E e \in Reported(ZoneA, "ns-prohibited") : e.i = 1
  /\ \E e \in Reported(ZoneA, "soa-prohibited") : e.i = 2
  /\ CallsOf({"GetZone"}) # {}
  /\ plans = <<>>

\* ------------------------------------------------------------------------
\* Apply on a managed record set whose records vary
\* ------------------------------------------------------------------------

\* the longest record list of a record set
MaxRecords == 2

\* a record given as a map; a disabled record also has a comment
DiffItem(content, disabled) ==
  [t |-> "map",
   m |-> [content  |-> [present |-> TRUE, ok |-> TRUE, v |-> content],
          disabled |-> [present |-> TRUE, ok |-> TRUE, v |-> disabled],
          comment  |-> [present |-> disabled, ok |-> TRUE, v |-> <<"c">>]]]

DiffRecords ==
  {[Content |-> c, Disabled |-> d] : c \in {<<"1">>, <<"2">>}, d \in BOOLEAN}

\* the record lists of at most n records
DiffRecordLists(n) == UNION {[1..k -> DiffRecords] : k \in 0..n}

DiffInput(records, ttl) ==
  RRsetInput(<<"w">>, <<"A">>,
             [shape |-> "list",
              items |-> [i \in 1..Len(records) |->
                           DiffItem(records[i].Content, records[i].Disabled)]],
             ttl)

DiffConfigs ==
  {ZoneA :> ZoneCfg(<<>>, <<DiffInput(l, ttl)>>) :
     l \in DiffRecordLists(MaxRecords), ttl \in {NoTTL, 600}}

DiffExisting(zoneID, records, comments) ==
  [Name |-> <<"w", ".">> \o zoneID, Type |-> <<"A">>, TTL |-> DefaultTTL, ChangeType |-> "",
   Records |-> records, Comments |-> comments]

DiffZones(zoneID) ==
  {ExistingZone(zoneID, accountName, <<DiffExisting(zoneID, l, c)>>) :
     l \in DiffRecordLists(MaxRecords), c \in {Managed, Manual \o Managed}}

\* a dry run and a real run without confirmation
DiffOptions == {o \in OptionsPool : o.DryRun \/ o.AutoConfirm}

InitDiff ==
  /\ cfg \in DiffConfigs
  /\ opts \in DiffOptions
  /\ backend \in {b \in [ZoneIDs -> {NoZone} \cup DiffZones(ZoneADot)] :
                    \A id \in ZoneIDs : b[id] \in (IF id = ZoneADot THEN DiffZones(id)
                                                   ELSE {NoZone})}
  /\ run = 1
  /\ prev = NoPrev
  /\ args = <<>>
  /\ out = <<>>
  /\ ApplyEntry

SpecDiff == InitDiff /\ [][Next]_vars

\* how often the (content, disabled) pair occurs in the records
CountOf(records, p) ==
  Cardinality({i \in 1..Len(records) :
                 records[i].Content = p.Content /\ records[i].Disabled = p.Disabled})

Pairs(records) ==
  {[Content |-> records[i].Content, Disabled |-> records[i].Disabled] :
     i \in 1..Len(records)}

SameMultiset(a, b) ==
  \A p \in Pairs(a) \cup Pairs(b) : CountOf(a, p) = CountOf(b, p)

\* the desired keys of a processed zone key whose record set in the zone
\* carries the ownership comment and differs in TTL or in its records
Changed(z) ==
  {k \in DOMAIN DesiredOf(z) :
     \E r \in Range(plans[z].existing) :
       /\ KeyOf(r) = k
       /\ HasOwnerComment(r)
       /\ \/ DesiredOf(z)[k].TTL # r.TTL
          \/ ~SameMultiset(DesiredOf(z)[k].Records, r.Records)}

\* C20: for a desired key whose existing record set is managed, a REPLACE
\* is emitted, and counted in RRsetsUpdated, exactly when the TTLs differ
\* or the multisets of (content, disabled) pairs differ; order and comments
\* play no part.
C20_UpdateOnMultisetChange ==
  \A z \in Planned :
    /\ \A k \in DOMAIN DesiredOf(z) :
         (\E r \in Range(plans[z].existing) : KeyOf(r) = k /\ HasOwnerComment(r)) =>
           /\ k \in Changed(z) =>
                /\ Cardinality(OpsAt(z, k)) = 1
                /\ \A i \in OpsAt(z, k) : plans[z].ops[i].ChangeType = "REPLACE"
           /\ k \notin Changed(z) => OpsAt(z, k) = {}
    /\ plans[z].updated = Cardinality(Changed(z))

\* the desired records are the existing ones in another order, one of them
\* disabled, under other comments: the run has sent nothing
C20_Witness ==
  /\ ret = "result"
  /\ ZoneA \in Planned
  /\ \E k \in DOMAIN DesiredOf(ZoneA) : \E r \in Range(plans[ZoneA].existing) :
       /\ KeyOf(r) = k
       /\ Len(r.Comments) = 2
       /\ Len(r.Records) = 2
       /\ r.Records[1].Disabled /\ ~r.Records[2].Disabled
       /\ DesiredOf(ZoneA)[k].Records = <<r.Records[2], r.Records[1]>>
       /\ DesiredOf(ZoneA)[k].TTL = r.TTL
  /\ plans[ZoneA].updated = 0
  /\ result.RRsetsUpdated = 0
  /\ CallsOf({"PatchZone"}) = {}

\* ------------------------------------------------------------------------
\* Record sets the zone does not hold yet
\* ------------------------------------------------------------------------

\* the desired keys of a processed zone key under which the fetched zone
\* holds no record set
Missing(z) ==
  {k \in DOMAIN DesiredOf(z) :
     \A r \in FetchedRRsets(CanonicalZoneName(z)) : KeyOf(r) # k}

\* C21: every desired key absent from the fetched zone yields exactly one
\* REPLACE operation with the desired name, type, TTL and records and is
\* counted once in RRsetsCreated; a run on a zone that does not exist, with
\* nameservers and n record sets configured, counts one zone created and
\* n + 1 record sets created.
C21_MissingKeysCreated ==
  \A z \in Planned :
    /\ \A k \in Missing(z) :
         /\ Cardinality(OpsAt(z, k)) = 1
         /\ \A i \in OpsAt(z, k) :
              /\ plans[z].ops[i].ChangeType = "REPLACE"
              /\ plans[z].ops[i].Name = DesiredOf(z)[k].Name
              /\ plans[z].ops[i].Type = DesiredOf(z)[k].Type
              /\ plans[z].ops[i].TTL = DesiredOf(z)[k].TTL
              /\ plans[z].ops[i].Records = DesiredOf(z)[k].Records
    /\ plans[z].created = Cardinality(Missing(z))
    /\ ~plans[z].state.Exists /\ Len(cfg[z].Nameservers) > 0 =>
         /\ plans[z].zoneCreated
         /\ plans[z].created = Len(cfg[z].RRsets) + 1
         /\ DOMAIN cfg = {z} =>
              /\ result.ZonesCreated = 1
              /\ result.RRsetsCreated = Len(cfg[z].RRsets) + 1

\* ------------------------------------------------------------------------
\* One patch request for each zone
\* ------------------------------------------------------------------------

PatchesOf(z) == {i \in CallsOf({"PatchZone"}) : calls[i].key = z}

ConfirmsOf(z) == {i \in CallsOf({"Confirm"}) : calls[i].key = z}

\* the confirmation callback has answered no for the zone key
Declined(z) == \E i \in ConfirmsOf(z) : ~calls[i].ok

\* C22 as claimed: in a real run the operations of every zone processed
\* are sent in exactly one PatchZone request, and a zone without operations
\* gets no PatchZone request and no confirmation.
C22_OnePatchPerZone ==
  ~opts.DryRun =>
    \A z \in Planned :
      /\ Len(plans[z].ops) = 0 => PatchesOf(z) = {} /\ ConfirmsOf(z) = {}
      /\ Len(plans[z].ops) > 0 =>
           /\ Cardinality(PatchesOf(z)) = 1
           /\ \A i \in PatchesOf(z) : calls[i].rrsets = plans[z].ops

\* C22 amended: in a real run the operations of every zone processed whose
\* confirmation is not declined are sent in exactly one PatchZone request;
\* a declined zone gets no PatchZone request; a zone without operations
\* gets no PatchZone request and no confirmation.
C22_OnePatchUnlessDeclined ==
  ~opts.DryRun =>
    \A z \in Planned :
      /\ Len(plans[z].ops) = 0 => PatchesOf(z) = {} /\ ConfirmsOf(z) = {}
      /\ Len(plans[z].ops) > 0 /\ ~Declined(z) =>
           /\ Cardinality(PatchesOf(z)) = 1
           /\ \A i \in PatchesOf(z) : calls[i].rrsets = plans[z].ops
      /\ Declined(z) => PatchesOf(z) = {}

\* a real run over two zone keys has sent the operations of each in one
\* request of its own after the confirmation, three operations in one of them
C22_Witness ==
  /\ ~opts.DryRun
  /\ ret = "result"
  /\ Cardinality(Planned) = 2
  /\ \E z \in Planned : Len(plans[z].ops) = 3
  /\ \A z \in Planned :
       /\ Len(plans[z].ops) > 0
       /\ \E i \in ConfirmsOf(z) : calls[i].ok
       /\ Cardinality(PatchesOf(z)) = 1
       /\ \A i \in PatchesOf(z) : calls[i].rrsets = plans[z].ops

\* ------------------------------------------------------------------------
\* Cancellation of the context
\* ------------------------------------------------------------------------

BackendCalls == {"GetZone", "CreateZone", "PatchZone"}

\* a cancelled context makes the backend call in flight fail, and every
\* backend call after it: the context was cancelled during call i
CancelledAt(i) ==
  /\ calls[i].op \in BackendCalls
  /\ ~calls[i].ok
  /\ \A j \in (i + 1)..Len(calls) : calls[j].op \in BackendCalls => ~calls[j].ok

\* C23: once the context is cancelled, so that the backend call in flight
\* fails, Apply issues no backend call and asks for no confirmation for the
\* zones it has not processed yet, in the fetch phase and in the apply phase.
C23_CancellationStops ==
  \A i \in 1..Len(calls) :
    CancelledAt(i) =>
      \A j \in (i + 1)..Len(calls) : calls[j].op \notin BackendCalls \cup {"Confirm"}

\* ------------------------------------------------------------------------
\* Helper functions called on their own
\* ------------------------------------------------------------------------

\* the longest comment list of a record set
MaxComments == 2

CommentAccounts == {accountName, "other-account", "Zone-Manager", ""}

CommentLists(n) ==
  UNION {[1..k -> {[Content |-> "c", Account |-> a] : a \in CommentAccounts}] : k \in 0..n}

\* isManaged(rrset) for a record set of a zone of any account
IsManagedArgs ==
  {[fn |-> "isManaged",
    zone |-> ExistingZone(ZoneADot, account,
                          <<Existing(<<"w", ".">> \o ZoneADot, <<"A">>, 300, <<<<"1">>>>, c)>>)] :
     account \in {accountName, "other-owner", ""}, c \in CommentLists(MaxComments)}

\* the longest name handed to buildFQDN and normalizeNameserver
MaxName == 2

\* the names of at most n characters
Names(n) == UNION {[1..k -> {"@", ".", "w"}] : k \in 0..n}

\* buildFQDN(name, zoneID) and normalizeNameserver(ns, zoneID)
FQDNArgs ==
  {[fn |-> f, name |-> name, zoneID |-> zoneID] :
     f \in {"buildFQDN", "normalizeNameserver"},
     name \in Names(MaxName),
     zoneID \in {<<"a", ".">>, <<"b", ".">>, <<"a">>}}

\* the longest record content handed to the TXT normalization
MaxContent == 2

\* the contents of at most n characters
Contents(n) == UNION {[1..k -> {"\"", "\\", "t"}] : k \in 0..n}

\* the record lists of one or two records
ContentRecords(n) ==
  {<<[Content |-> c, Disabled |-> d]>> : c \in Contents(n), d \in BOOLEAN}
    \cup {<<[Content |-> c, Disabled |-> FALSE], [Content |-> e, Disabled |-> TRUE]>> :
            c \in Contents(n), e \in Contents(n)}

\* the record loop of buildDesiredRRsets for one normalized record set
DesiredRecordsArgs ==
  {[fn |-> "desiredRecords",
    rrset |-> [Name |-> <<"@">>, Type |-> t, TTL |-> DefaultTTL, Records |-> r]] :
     t \in {TXTType, <<"A">>}, r \in ContentRecords(MaxContent)}

\* the longest records list handed to normalizeRecords
MaxItems == 2

\* a field of a record object: absent, of the right type, of another type
FieldValues(v) ==
  {[present |-> FALSE, ok |-> TRUE, v |-> v],
   [present |-> TRUE, ok |-> TRUE, v |-> v],
   [present |-> TRUE, ok |-> FALSE, v |-> v]}

RecordMaps ==
  {[content |-> c, disabled |-> d, comment |-> k] :
     c \in FieldValues(<<"2">>), d \in FieldValues(TRUE), k \in FieldValues(<<"c">>)}

RecordItems ==
  {StrItem(<<"1">>), [t |-> "other"]} \cup {[t |-> "map", m |-> m] : m \in RecordMaps}

\* the raw records values: nil, a scalar that is no string, a string, an
\* object, a list of at most n items
RecordInputs(n) ==
  {[shape |-> "nil"], [shape |-> "other"], Str(<<"1">>)}
    \cup {[shape |-> "map", m |-> m] : m \in RecordMaps}
    \cup {[shape |-> "list", items |-> l] :
            l \in UNION {[1..k -> RecordItems] : k \in 0..n}}

NormalizeRecordsArgs ==
  {[fn |-> "normalizeRecords", input |-> i] : i \in RecordInputs(MaxItems)}

\* record sets with types in several spellings, with and without a TTL,
\* with records that can and cannot be normalized
TypedInputs ==
  {RRsetInput(<<"w">>, t, r, ttl) :
     t \in {<<"a">>, <<"A">>, <<"T", "x", "t">>},
     r \in {Str(<<"1">>), [shape |-> "other"]},
     ttl \in {NoTTL, 0, DefaultTTL, 600}}

NormalizeRRsetsArgs ==
  {[fn |-> "NormalizeRRsets", zone |-> ZoneCfg(<<>>, l)] :
     l \in UNION {[1..k -> TypedInputs] : k \in 0..MaxRRsets}}

\* record sets of the zone a. whose owners are written as a relative name,
\* as an absolute name and as "@", in both cases of the letters
OwnerInputs ==
  {RRsetInput(n, t, Str(<<"1">>), NoTTL) :
     n \in {<<"@">>, ZoneADot, <<"w">>, <<"w", ".">> \o ZoneADot, <<"W">>},
     t \in {<<"A">>, <<"a">>}}

BuildDesiredArgs ==
  {[fn |-> "buildDesiredRRsets", zoneID |-> ZoneADot, cfg |-> ZoneCfg(ns, l), state |-> st] :
     ns \in {<<>>, <<<<"n">>>>},
     l \in UNION {[1..k -> OwnerInputs] : k \in 0..MaxRRsets},
     st \in {NoState, [Exists |-> TRUE, IsManaged |-> TRUE],
              [Exists |-> TRUE, IsManaged |-> FALSE]}}

\* the HTTP status codes the server may answer with
Statuses == {200, 201, 204, 400, 404, 409, 422, 500}

\* the bodies of a response: a zone, or bytes that are no JSON
Bodies ==
  {[json |-> FALSE]}
    \cup {[json |-> TRUE, zone |-> ExistingZone(ZoneADot, a, <<>>)] :
            a \in {accountName, "other-owner"}}

\* what doRequest returns: an error of the transport, or a response
Responses ==
  {[failed |-> TRUE]}
    \cup {[failed |-> FALSE, StatusCode |-> st, body |-> b] : st \in Statuses, b \in Bodies}

\* the zone a client method unmarshals from the body of a response
zoneOfBody(body) ==
  IF body.json THEN [err |-> FALSE, zone |-> body.zone] ELSE [err |-> TRUE]

\* variant of ClientGetZone: 404 goes the way of every status but 200
ClientGetZoneStrict(resp) ==
  IF resp.failed THEN [err |-> TRUE]
  ELSE IF resp.StatusCode # 200 THEN [err |-> TRUE]
  ELSE zoneOfBody(resp.body)

\* Client.GetZone from the return of doRequest on; NoZone is Go's nil zone
ClientGetZone(resp) ==
  IF resp.failed THEN [err |-> TRUE]
  ELSE IF resp.StatusCode = 404 THEN [err |-> FALSE, zone |-> NoZone]
  ELSE IF resp.StatusCode # 200 THEN [err |-> TRUE]
  ELSE zoneOfBody(resp.body)

\* Client.CreateZone from the return of doRequest on
ClientCreateZone(resp) ==
  IF resp.failed THEN [err |-> TRUE]
  ELSE IF resp.StatusCode # 201 THEN [err |-> TRUE]
  ELSE zoneOfBody(resp.body)

\* Client.PatchZone from the return of doRequest on
ClientPatchZone(resp) ==
  IF resp.failed THEN [err |-> TRUE]
  ELSE IF resp.StatusCode # 204 THEN [err |-> TRUE]
  ELSE [err |-> FALSE]

\* the body of the first loop of Apply after GetZone returned: the run is
\* given up, or the state of the zone is stored
fetchOutcome(got) ==
  IF got.err THEN [ret |-> "fetch-error"]
  ELSE [ret |-> "none", state |-> zoneStateOf(got.zone)]

\* the longest secret handed to MaskSecret
MaxSecret == 6

Secrets(n) == UNION {[1..k -> {"a", "b", "*"}] : k \in 0..n}

MaskSecretArgs == {[fn |-> "MaskSecret", secret |-> x] : x \in Secrets(MaxSecret)}

\* strings.Repeat("*", n)
Stars(n) == [i \in 1..n |-> "*"]

\* variant of MaskSecret: a secret of four characters is not short
MaskSecretUnderFour(secret) ==
  IF Len(secret) < 4 THEN Stars(4)
  ELSE SubSeq(secret, 1, 2) \o Stars(Len(secret) - 4)
         \o SubSeq(secret, Len(secret) - 1, Len(secret))

MaskSecret(secret) ==
  IF Len(secret) <= 4 THEN Stars(4)
  ELSE SubSeq(secret, 1, 2) \o Stars(Len(secret) - 4)
         \o SubSeq(secret, Len(secret) - 1, Len(secret))

ClientArgs ==
  {[fn |-> f, resp |-> r] : f \in {"GetZone", "CreateZone", "PatchZone"}, r \in Responses}

HelperArgs ==
  IsManagedArgs \cup FQDNArgs \cup DesiredRecordsArgs \cup NormalizeRecordsArgs
    \cup NormalizeRRsetsArgs \cup BuildDesiredArgs \cup ClientArgs \cup MaskSecretArgs

\* no Apply is running
NoApply ==
  /\ cfg = <<>>
  /\ opts = [DryRun |-> TRUE, AutoConfirm |-> FALSE, HasConfirmFn |-> FALSE]
  /\ backend = [id \in ZoneIDs |-> NoZone]
  /\ backend0 = backend
  /\ toFetch = {}
  /\ toApply = {}
  /\ existingZones = <<>>
  /\ zoneData = <<>>
  /\ result = EmptyResult
  /\ ret = "none"
  /\ verrs = {}
  /\ calls = <<>>
  /\ plans = <<>>
  /\ run = 1
  /\ prev = NoPrev

InitHelpers ==
  /\ args \in HelperArgs
  /\ out = <<>>
  /\ pc = "call"
  /\ NoApply

\* the helper returns r
Returns(r) ==
  /\ pc = "call"
  /\ out' = <<r>>
  /\ pc' = "returned"
  /\ UNCHANGED <<cfg, opts, backend, backend0, toFetch, toApply, existingZones, zoneData,
                 result, ret, verrs, calls, plans, run, prev, args>>

\* the helper, called on its own result, returns r
ReturnsAgain(r) ==
  /\ pc = "returned"
  /\ out' = Append(out, r)
  /\ pc' = "repeated"
  /\ UNCHANGED <<cfg, opts, backend, backend0, toFetch, toApply, existingZones, zoneData,
                 result, ret, verrs, calls, plans, run, prev, args>>

IsManagedCall ==
  /\ args.fn = "isManaged"
  /\ Returns(isManaged(args.zone.RRsets[1]))

BuildFQDNCall ==
  /\ args.fn = "buildFQDN"
  /\ Returns(buildFQDN(args.name, args.zoneID))

BuildFQDNAgain ==
  /\ args.fn = "buildFQDN"
  /\ ReturnsAgain(buildFQDN(out[1], args.zoneID))

NormalizeNameserverCall ==
  /\ args.fn = "normalizeNameserver"
  /\ Returns(normalizeNameserver(args.name, args.zoneID))

NormalizeNameserverAgain ==
  /\ args.fn = "normalizeNameserver"
  /\ ReturnsAgain(normalizeNameserver(out[1], args.zoneID))

DesiredRecordsCall ==
  /\ args.fn = "desiredRecords"
  /\ Returns(desiredRecords(args.rrset))

DesiredRecordsAgain ==
  /\ args.fn = "desiredRecords"
  /\ ReturnsAgain(desiredRecords([args.rrset EXCEPT !.Records = out[1]]))

NormalizeRecordsCall ==
  /\ args.fn = "normalizeRecords"
  /\ Returns(normalizeRecords(args.input))

NormalizeRRsetsCall ==
  /\ args.fn = "NormalizeRRsets"
  /\ Returns(NormalizeRRsets(args.zone))

BuildDesiredRRsetsCall ==
  /\ args.fn = "buildDesiredRRsets"
  /\ Returns(buildDesiredRRsets(args.zoneID, args.cfg, args.state))

GetZoneCall ==
  /\ args.fn = "GetZone"
  /\ Returns(ClientGetZone(args.resp))

\* Apply goes on after its GetZone call
GetZoneFetched ==
  /\ args.fn = "GetZone"
  /\ ReturnsAgain(fetchOutcome(out[1]))

CreateZoneCall ==
  /\ args.fn = "CreateZone"
  /\ Returns(ClientCreateZone(args.resp))

PatchZoneCall ==
  /\ args.fn = "PatchZone"
  /\ Returns(ClientPatchZone(args.resp))

MaskSecretCall ==
  /\ args.fn = "MaskSecret"
  /\ Returns(MaskSecret(args.secret))

NextHelpers ==
  \/ IsManagedCall
  \/ BuildFQDNCall
  \/ BuildFQDNAgain
  \/ NormalizeNameserverCall
  \/ NormalizeNameserverAgain
  \/ DesiredRecordsCall
  \/ DesiredRecordsAgain
  \/ NormalizeRecordsCall
  \/ NormalizeRRsetsCall
  \/ BuildDesiredRRsetsCall
  \/ GetZoneCall
  \/ GetZoneFetched
  \/ CreateZoneCall
  \/ PatchZoneCall
  \/ MaskSecretCall

SpecHelpers == InitHelpers /\ [][NextHelpers]_vars

\* C24: isManaged is true exactly when at least one comment of the record
\* set has the account "zone-manager": false without comments, true when
\* only one of several comments matches, whatever the account of the zone.
C24_IsManaged ==
  pc = "returned" /\ args.fn = "isManaged" =>
    /\ out[1] = (\E c \in Range(args.zone.RRsets[1].Comments) : c.Account = "zone-manager")
    /\ args.zone.RRsets[1].Comments = <<>> => out[1] = FALSE

\* isManaged returned true for a record set of a zone of another account
\* whose second comment alone has the tool's account
C24_Witness ==
  /\ pc = "returned"
  /\ args.fn = "isManaged"
  /\ args.zone.Account = "other-owner"
  /\ Len(args.zone.RRsets[1].Comments) = 2
  /\ args.zone.RRsets[1].Comments[1].Account = "other-account"
  /\ args.zone.RRsets[1].Comments[2].Account = "zone-manager"
  /\ out[1] = TRUE

\* ------------------------------------------------------------------------
\* The state of a zone, fetched once
\* ------------------------------------------------------------------------

\* what the backend held under the zone key when the run began
ExistedAtStart(z) == backend0[CanonicalZoneName(z)].Exists

OwnedAtStart(z) ==
  ExistedAtStart(z) /\ backend0[CanonicalZoneName(z)].Account = "zone-manager"

\* C25: once the fetch phase is over, the state recorded for every
\* configured zone key has Exists true iff GetZone returned a zone and
\* IsManaged true iff that zone has the account "zone-manager"; there was
\* one GetZone call for the key, and validation, the desired state and the
\* decision to create the zone all follow that state.
C25_ZoneStateOnce ==
  ValidateAt # {} =>
    \A z \in DOMAIN cfg :
      /\ CanonicalZoneName(z) \in DOMAIN existingZones
      /\ existingZones[CanonicalZoneName(z)].Exists = ExistedAtStart(z)
      /\ existingZones[CanonicalZoneName(z)].IsManaged = OwnedAtStart(z)
      /\ existingZones[CanonicalZoneName(z)].IsManaged
           => existingZones[CanonicalZoneName(z)].Exists
      /\ Cardinality({i \in CallsOf({"GetZone"}) : calls[i].key = z}) = 1
      /\ Reported(z, "nameservers-required") # {}
           <=> ~ExistedAtStart(z) /\ Len(cfg[z].Nameservers) = 0
      /\ Reported(z, "not-managed") # {} <=> ExistedAtStart(z) /\ ~OwnedAtStart(z)
      /\ z \in DOMAIN plans =>
           /\ plans[z].state = existingZones[CanonicalZoneName(z)]
           /\ (\E i \in CallsOf({"CreateZone"}) : calls[i].key = z)
                <=> ~ExistedAtStart(z) /\ ~opts.DryRun
           /\ z \in Planned =>
                (CanonicalZoneName(z) \o <<"/", "N", "S">> \in DOMAIN DesiredOf(z))
                  <=> /\ Len(cfg[z].Nameservers) > 0
                      /\ OwnedAtStart(z) \/ ~ExistedAtStart(z)

\* a real run over the keys "a" and "a." of a zone that did not exist has
\* processed both keys with the state fetched at the start, after the first
\* of them had created the zone
C25_Witness ==
  /\ ret = "result"
  /\ ~opts.DryRun
  /\ DOMAIN cfg = {ZoneA, ZoneADot}
  /\ DOMAIN plans = {ZoneA, ZoneADot}
  /\ ~backend0[ZoneADot].Exists
  /\ backend[ZoneADot].Exists
  /\ \A z \in DOMAIN plans : ~plans[z].state.Exists
  /\ Cardinality(CallsOf({"CreateZone"})) = 2

\* ------------------------------------------------------------------------
\* Absolute names
\* ------------------------------------------------------------------------

EndsWithDot(s) == Len(s) > 0 /\ s[Len(s)] = "."

\* C26: buildFQDN maps "@" to the zone name, leaves a name that ends in "."
\* as it is and otherwise returns name, ".", zone name; normalizeNameserver
\* leaves a nameserver that ends in "." as it is and otherwise appends "."
\* and the zone name; for a zone name that ends in "." both results end in
\* "." and a second application changes nothing.
C26_AbsoluteNames ==
  /\ pc \in {"returned", "repeated"} /\ args.fn = "buildFQDN" =>
       /\ args.name = <<"@">> => out[1] = args.zoneID
       /\ args.name # <<"@">> /\ EndsWithDot(args.name) => out[1] = args.name
       /\ args.name # <<"@">> /\ ~EndsWithDot(args.name)
            => out[1] = args.name \o <<".">> \o args.zoneID
  /\ pc \in {"returned", "repeated"} /\ args.fn = "normalizeNameserver" =>
       /\ EndsWithDot(args.name) => out[1] = args.name
       /\ ~EndsWithDot(args.name) => out[1] = args.name \o <<".">> \o args.zoneID
  /\ /\ pc \in {"returned", "repeated"}
     /\ args.fn \in {"buildFQDN", "normalizeNameserver"}
     /\ EndsWithDot(args.zoneID)
     => /\ EndsWithDot(out[1])
        /\ pc = "repeated" => out[2] = out[1]

\* buildFQDN has completed a relative name with the zone name and, applied
\* to that result, returned it unchanged
C26_Witness ==
  /\ pc = "repeated"
  /\ args.fn = "buildFQDN"
  /\ args.name = <<"w">>
  /\ args.zoneID = <<"a", ".">>
  /\ out = <<<<"w", ".", "a", ".">>, <<"w", ".", "a", ".">>>>

\* ------------------------------------------------------------------------
\* Contents of TXT records
\* ------------------------------------------------------------------------

\* the content begins and ends with a double quote
Wrapped(s) == Len(s) >= 2 /\ s[1] = "\"" /\ s[Len(s)] = "\""

\* C27: in the desired state every record content of a TXT record set is
\* wrapped in double quotes: a content that is not wrapped gets wrapped, a
\* wrapped content stays as it is, so that a second normalization changes
\* nothing; the contents of record sets of other types are not altered.
C27_TXTContentsWrapped ==
  pc \in {"returned", "repeated"} /\ args.fn = "desiredRecords" =>
    /\ Len(out[1]) = Len(args.rrset.Records)
    /\ \A i \in 1..Len(args.rrset.Records) :
         /\ out[1][i].Disabled = args.rrset.Records[i].Disabled
         /\ args.rrset.Type = <<"T", "X", "T">> =>
              /\ Wrapped(out[1][i].Content)
              /\ Wrapped(args.rrset.Records[i].Content)
                   => out[1][i].Content = args.rrset.Records[i].Content
         /\ args.rrset.Type # <<"T", "X", "T">>
              => out[1][i].Content = args.rrset.Records[i].Content
    /\ pc = "repeated" => out[2] = out[1]

\* ------------------------------------------------------------------------
\* The shapes of a records value
\* ------------------------------------------------------------------------

\* a field of a record object has a value of another type
BadField(f) == f.present /\ ~f.ok

\* the element is no string and no object, or one of its fields has a
\* value of another type
BadItem(item) ==
  \/ item.t \notin {"string", "map"}
  \/ item.t = "map" /\ (BadField(item.m.content) \/ BadField(item.m.disabled)
                        \/ BadField(item.m.comment))

\* the record of an element: the content given, disabled unless false or
\* not given
RecordFits(rec, item) ==
  IF item.t = "string" THEN rec = [Content |-> item.s, Disabled |-> FALSE]
  ELSE /\ item.m.content.present => rec.Content = item.m.content.v
       /\ rec.Disabled = (item.m.disabled.present /\ item.m.disabled.v)

\* the elements of a records value
ItemsOf(input) ==
  IF input.shape = "string" THEN <<[t |-> "string", s |-> input.s]>>
  ELSE IF input.shape = "map" THEN <<[t |-> "map", m |-> input.m]>>
  ELSE IF input.shape = "list" THEN input.items
  ELSE <<[t |-> "other"]>>

\* C28: normalizeRecords turns a string, an object, a list of strings, of
\* objects or of both into one record per element, in the order of the
\* input, disabled being false unless given; it fails when an element is
\* neither a string nor an object or when a field has a value of the wrong
\* type.  NormalizeRRsets stores the type in upper case and the TTL given,
\* or 300 when none is given.
C28_RecordShapes ==
  /\ pc = "returned" /\ args.fn = "normalizeRecords" /\ args.input.shape # "nil" =>
       /\ out[1].err <=> \E i \in 1..Len(ItemsOf(args.input)) : BadItem(ItemsOf(args.input)[i])
       /\ ~out[1].err =>
            /\ Len(out[1].recs) = Len(ItemsOf(args.input))
            /\ \A i \in 1..Len(out[1].recs) :
                 RecordFits(out[1].recs[i], ItemsOf(args.input)[i])
  /\ pc = "returned" /\ args.fn = "NormalizeRRsets" /\ ~out[1].err =>
       /\ Len(out[1].rrsets) = Len(args.zone.RRsets)
       /\ \A i \in 1..Len(out[1].rrsets) :
            /\ out[1].rrsets[i].Name = args.zone.RRsets[i].Name
            /\ out[1].rrsets[i].Type = ToUpper(args.zone.RRsets[i].Type)
            /\ args.zone.RRsets[i].TTL = NoTTL => out[1].rrsets[i].TTL = 300
            /\ args.zone.RRsets[i].TTL # NoTTL
                 => out[1].rrsets[i].TTL = args.zone.RRsets[i].TTL

\* NormalizeRRsets returned two record sets, one with the TTL 0 it was
\* given and one with the default TTL, both with the type in upper case
C28_Witness ==
  /\ pc = "returned"
  /\ args.fn = "NormalizeRRsets"
  /\ Len(args.zone.RRsets) = 2
  /\ args.zone.RRsets[1].TTL = 0
  /\ args.zone.RRsets[1].Type = <<"T", "x", "t">>
  /\ args.zone.RRsets[2].TTL = NoTTL
  /\ ~out[1].err
  /\ out[1].rrsets[1].TTL = 0
  /\ out[1].rrsets[1].Type = <<"T", "X", "T">>
  /\ out[1].rrsets[2].TTL = 300

\* ------------------------------------------------------------------------
\* Apply on zones to create, of every kind
\* ------------------------------------------------------------------------

CreateKinds == {"", "Master", "Consumer", "native"}

CreateNameservers == {<<>>, <<<<>>>>, <<<<"n">>>>, <<<<"n">>, <<"x", ".">>>>}

CreateZoneCfgs ==
  {[Kind |-> kind, Nameservers |-> ns, RRsets |-> l] :
     kind \in CreateKinds, ns \in CreateNameservers, l \in {<<>>, <<InputWA1>>}}

CreateConfigs ==
  UNION {[D -> CreateZoneCfgs] : D \in {{ZoneA}, {ZoneADot}, {ZoneA, ZoneB}}}

\* every zone the configuration names is absent or exists, owned or not
CreateBackends(c) ==
  {b \in [ZoneIDs -> {NoZone} \cup UNION {{ExistingZone(id, accountName, <<>>),
                                           ExistingZone(id, "other-owner", <<>>)} :
                                            id \in ZoneIDs}] :
     \A id \in ZoneIDs :
       /\ b[id].Exists => b[id].Name = id
       /\ (id \notin {CanonicalZoneName(z) : z \in DOMAIN c} => b[id] = NoZone)}

InitCreate ==
  /\ cfg \in CreateConfigs
  /\ opts \in OptionsPool
  /\ backend \in CreateBackends(cfg)
  /\ run = 1
  /\ prev = NoPrev
  /\ args = <<>>
  /\ out = <<>>
  /\ ApplyEntry

SpecCreate == InitCreate /\ [][Next]_vars

\* C29: CreateZone is called only in a real run and only for a zone whose
\* fetched state has Exists = false; every CreateZone request carries the
\* canonical zone name, which ends in ".", the configured account name, a
\* kind that is one of Native, Master, Slave, Producer, Consumer (Native when
\* the configuration omits it) and a non-empty list of nameservers that each
\* end in ".".
C29_CreateZoneRequests ==
  \A i \in CallsOf({"CreateZone"}) :
    /\ ~opts.DryRun
    /\ calls[i].zone \in DOMAIN existingZones
    /\ ~existingZones[calls[i].zone].Exists
    /\ calls[i].req.Name = calls[i].zone
    /\ EndsWithDot(calls[i].req.Name)
    /\ calls[i].req.Name \in {calls[i].key, calls[i].key \o <<".">>}
    /\ calls[i].req.Account = "zone-manager"
    /\ calls[i].req.Kind \in {"Native", "Master", "Slave", "Producer", "Consumer"}
    /\ cfg[calls[i].key].Kind = "" => calls[i].req.Kind = "Native"
    /\ Len(calls[i].req.Nameservers) > 0
    /\ \A k \in 1..Len(calls[i].req.Nameservers) :
         EndsWithDot(calls[i].req.Nameservers[k])

\* two zones were created, one without a configured kind and one as a
\* Consumer zone; a relative and an absolute nameserver were sent for one
C29_Witness ==
  /\ pc = "done"
  /\ \E i, j \in CallsOf({"CreateZone"}) :
       /\ cfg[calls[i].key].Kind = ""
       /\ calls[i].req.Kind = "Native"
       /\ calls[i].req.Nameservers = <<<<"n", ".">> \o calls[i].zone, <<"x", ".">>>>
       /\ calls[j].req.Kind = "Consumer"
       /\ calls[j].ok

\* ------------------------------------------------------------------------
\* The apply command
\* ------------------------------------------------------------------------

\* the configuration file: it cannot be read, it is no YAML, or it holds a
\* configuration
ConfigFiles ==
  {[kind |-> "unreadable"], [kind |-> "garbled"]}
    \cup {[kind |-> "yaml", cfg |-> c] :
            c \in {d \in Configs : /\ WellFormed(d)
                                   /\ DOMAIN d \in {{ZoneA}, {ZoneA, ZoneB}}
                                   /\ Len(d[ZoneA].RRsets) <= 1}}

\* LoadFromFile: os.ReadFile, then yaml.Unmarshal
LoadFromFile(file) ==
  IF file.kind = "unreadable" THEN [err |-> TRUE]
  ELSE IF file.kind = "garbled" THEN [err |-> TRUE]
  ELSE [err |-> FALSE, cfg |-> file.cfg]

\* the flags and the argument of the command
RunApplyArgs ==
  {[fn |-> "runApply", dryRun |-> d, autoConfirm |-> y, jsonOutput |-> j, file |-> f] :
     d \in BOOLEAN, y \in BOOLEAN, j \in BOOLEAN, f \in ConfigFiles}

\* the backends the command may talk to
BackendsOf(file) ==
  IF LoadFromFile(file).err THEN {[id \in ZoneIDs |-> NoZone]} ELSE BackendFor(file.cfg)

\* the options runApply hands to Apply, and whether it sets a confirmation
\* function
runApplyOptions(a) ==
  [DryRun       |-> a.dryRun,
   AutoConfirm  |-> a.jsonOutput \/ a.autoConfirm,
   HasConfirmFn |-> ~a.jsonOutput /\ ~a.autoConfirm /\ ~a.dryRun]

\* variant of runApplyFails: the errors of the result are not looked at
runApplyFailsOnErr(r, res) == r # "result"

\* runApply returns an error after Apply: Apply returned one, or the result
\* holds errors
runApplyFails(r, res) == r # "result" \/ Len(res.Errors) > 0

\* the exit code of the process: 1 when the command returned an error
exitCode(failed) == IF failed THEN 1 ELSE 0

InitCLI ==
  /\ args \in RunApplyArgs
  /\ out = <<>>
  /\ pc = "cli"
  /\ cfg = <<>>
  /\ opts = [DryRun |-> TRUE, AutoConfirm |-> FALSE, HasConfirmFn |-> FALSE]
  /\ backend \in BackendsOf(args.file)
  /\ backend0 = backend
  /\ toFetch = {}
  /\ toApply = {}
  /\ existingZones = <<>>
  /\ zoneData = <<>>
  /\ result = EmptyResult
  /\ ret = "none"
  /\ verrs = {}
  /\ calls = <<>>
  /\ plans = <<>>
  /\ run = 1
  /\ prev = NoPrev

\* runApply: the configuration cannot be loaded
RunApplyLoadFailed ==
  /\ pc = "cli"
  /\ LoadFromFile(args.file).err
  /\ out' = <<exitCode(TRUE)>>
  /\ pc' = "exited"
  /\ UNCHANGED <<cfg, opts, backend, backend0, toFetch, toApply, existingZones, zoneData,
                 result, ret, verrs, calls, plans, run, prev, args>>

\* runApply: the configuration is loaded, Apply is entered
RunApplyLoaded ==
  /\ pc = "cli"
  /\ ~LoadFromFile(args.file).err
  /\ cfg' = LoadFromFile(args.file).cfg
  /\ opts' = runApplyOptions(args)
  /\ toFetch' = DOMAIN LoadFromFile(args.file).cfg
  /\ pc' = "fetch"
  /\ UNCHANGED <<backend, backend0, toApply, existingZones, zoneData, result, ret, verrs,
                 calls, plans, run, prev, args, out>>

\* runApply after Apply returned
RunApplyReturn ==
  /\ pc = "done"
  /\ args.fn = "runApply"
  /\ out' = <<exitCode(runApplyFails(ret, result))>>
  /\ pc' = "exited"
  /\ UNCHANGED <<cfg, opts, backend, backend0, toFetch, toApply, existingZones, zoneData,
                 result, ret, verrs, calls, plans, run, prev, args>>

NextCLI ==
  \/ RunApplyLoadFailed
  \/ RunApplyLoaded
  \/ GetZoneOKStep
  \/ GetZoneErrStep
  \/ ValidateConfig
  \/ ApplyZoneStep
  \/ ApplyReturn
  \/ RunApplyReturn

SpecCLI == InitCLI /\ [][NextCLI]_vars

\* C30: the apply command ends with a non-zero exit exactly when the
\* configuration cannot be loaded, a GetZone call of the fetch phase failed,
\* the validation found a violation, or the result holds an error, as it
\* does for a zone whose confirmation was declined; it ends with exit zero
\* otherwise, also in a dry run that plans changes.
C30_ExitCode ==
  pc = "exited" =>
    /\ out[1] # 0 <=> \/ args.file.kind # "yaml"
                      \/ \E i \in CallsOf({"GetZone"}) : ~calls[i].ok
                      \/ verrs # {}
                      \/ Len(result.Errors) > 0
    /\ (\E i \in CallsOf({"Confirm"}) : ~calls[i].ok) => out[1] # 0

\* the command ended with a non-zero exit after a run in which nothing but
\* the confirmation of a zone failed
C30_Witness ==
  /\ pc = "exited"
  /\ out[1] # 0
  /\ ret = "result"
  /\ \E i \in CallsOf({"Confirm"}) : ~calls[i].ok
  /\ \A i \in BackendCalls : \A k \in CallsOf({i}) : calls[k].ok
  /\ Len(result.Errors) = 1

\* ------------------------------------------------------------------------
\* The keys of the desired record sets
\* ------------------------------------------------------------------------

\* the NS record set is synthesized for this call of buildDesiredRRsets
Synthesized(a) == Len(a.cfg.Nameservers) > 0 /\ (a.state.IsManaged \/ ~a.state.Exists)

\* C31: for a configuration that passes validation the record sets of a
\* zone and the synthesized NS record set have pairwise distinct desired
\* keys: the desired map holds as many record sets as the configuration,
\* plus one when the NS record set is synthesized, also when the same owner
\* is written as a relative name, as an absolute name or as "@".
C31_DistinctDesiredKeys ==
  /\ pc = "returned"
  /\ args.fn = "buildDesiredRRsets"
  /\ Validate(ZoneA :> args.cfg, ZoneADot :> args.state) = {}
  => /\ ~out[1].err
     /\ Cardinality(DOMAIN out[1].desired)
          = Len(args.cfg.RRsets) + (IF Synthesized(args) THEN 1 ELSE 0)

\* ------------------------------------------------------------------------
\* Matching of desired and existing record sets
\* ------------------------------------------------------------------------

\* the name and the type of two record sets differ in letter case at most
SameIgnoringCase(d, r) ==
  ToLower(d.Name) = ToLower(r.Name) /\ ToUpper(d.Type) = ToUpper(r.Type)

\* the desired keys of a processed zone key that no record set of the zone
\* matches
Unmatched(z) ==
  {k \in DOMAIN DesiredOf(z) :
     \A r \in Range(plans[z].existing) : ~SameIgnoringCase(DesiredOf(z)[k], r)}

\* C32: a desired record set whose name and type differ from those of an
\* existing record set in letter case at most is classified against that
\* record set: it is skipped when the record set is not managed, replaced
\* exactly when it is managed and differs, and never counted as created;
\* the existing record set is never deleted as an orphan.
C32_MatchedIgnoringCase ==
  \A z \in Planned :
    /\ \A k \in DOMAIN DesiredOf(z) : \A r \in Range(plans[z].existing) :
         SameIgnoringCase(DesiredOf(z)[k], r) =>
           /\ DeletesAt(z, KeyOf(r)) = {}
           /\ ~HasOwnerComment(r) => OpsAt(z, KeyOf(r)) = {}
           /\ HasOwnerComment(r) => (OpsAt(z, KeyOf(r)) # {} <=> k \in Changed(z))
    /\ plans[z].created = Cardinality(Unmatched(z))

\* a zone was processed in which a desired record set and an unmanaged
\* record set of the zone have names that differ in letter case; nothing was
\* planned for it
C32_Witness ==
  \E z \in Planned : \E k \in DOMAIN DesiredOf(z) : \E r \in Range(plans[z].existing) :
    /\ SameIgnoringCase(DesiredOf(z)[k], r)
    /\ DesiredOf(z)[k].Name # r.Name
    /\ ~HasOwnerComment(r)
    /\ OpsAt(z, k) = {}
    /\ plans[z].created = 0
    /\ pc = "done"

\* ------------------------------------------------------------------------
\* The zone after a run without failures
\* ------------------------------------------------------------------------

\* a real run returned a result; every backend call succeeded and every
\* confirmation was granted
CleanRealRun ==
  /\ pc = "done"
  /\ ret = "result"
  /\ ~opts.DryRun
  /\ \A i \in 1..Len(calls) : calls[i].ok

\* the desired keys of a processed zone key under which the fetched zone
\* holds no record set or a managed one
Owned(z) ==
  {k \in DOMAIN DesiredOf(z) :
     \A r \in FetchedRRsets(CanonicalZoneName(z)) : KeyOf(r) = k => HasOwnerComment(r)}

\* C33: after a real run in which every confirmation is granted and no
\* backend call fails, for every processed zone each desired key that was
\* absent or managed at fetch time holds a managed record set with the
\* desired TTL and the desired multiset of records, no managed record set
\* remains at a key outside the desired map, and every other record set is
\* exactly as it was at fetch time.
C33_ZoneConverges ==
  CleanRealRun =>
    \A z \in Planned :
      /\ \A k \in Owned(z) :
           \E r \in NowRRsets(CanonicalZoneName(z)) :
             /\ KeyOf(r) = k
             /\ r.TTL = DesiredOf(z)[k].TTL
             /\ SameMultiset(r.Records, DesiredOf(z)[k].Records)
             /\ HasOwnerComment(r)
      /\ \A r \in NowRRsets(CanonicalZoneName(z)) :
           HasOwnerComment(r) => KeyOf(r) \in DOMAIN DesiredOf(z)
      /\ \A r \in FetchedRRsets(CanonicalZoneName(z)) :
           ~HasOwnerComment(r) => r \in NowRRsets(CanonicalZoneName(z))
      /\ \A r \in NowRRsets(CanonicalZoneName(z)) :
           ~HasOwnerComment(r) => r \in FetchedRRsets(CanonicalZoneName(z))

\* ------------------------------------------------------------------------
\* The counters of the result
\* ------------------------------------------------------------------------

\* the operations of a kind in the patch planned for a zone key
OpsOfKind(z, kind) ==
  {i \in 1..Len(plans[z].ops) : plans[z].ops[i].ChangeType = kind}

\* the number of operations of a kind planned in the run
PlannedOps(kind) ==
  SumOver(DOMAIN plans, [z \in DOMAIN plans |-> Cardinality(OpsOfKind(z, kind))])

\* the zone keys whose patch was planned and not applied
NotApplied == {z \in DOMAIN plans : plans[z].outcome \in {"patch-failed", "aborted"}}

\* C34: the record-set counters count the planned operations, applied or
\* not: when PatchZone fails for a zone or its confirmation is declined, the
\* operations planned for it are counted although none was applied;
\* ZonesCreated does not count a zone whose CreateZone failed.
C34_CountersCountPlans ==
  pc = "done" /\ ret = "result" =>
    /\ result.RRsetsCreated + result.RRsetsUpdated = PlannedOps("REPLACE")
    /\ result.RRsetsDeleted = PlannedOps("DELETE")
    /\ result.RRsetsCreated
         = SumOver(Planned, [z \in Planned |-> Cardinality(Unmatched(z))])
    /\ \A z \in NotApplied :
         /\ Len(plans[z].ops) > 0
         /\ \A i \in CallsOf({"PatchZone"}) : calls[i].key = z => ~calls[i].ok
    /\ ~opts.DryRun =>
         result.ZonesCreated = Cardinality({i \in CallsOf({"CreateZone"}) : calls[i].ok})

\* PatchZone failed for one zone, whose planned operations are counted, and
\* CreateZone failed for another, which is not counted as created
C34_Witness ==
  /\ pc = "done"
  /\ ret = "result"
  /\ \E y, z \in DOMAIN plans :
       /\ plans[y].outcome = "create-failed"
       /\ plans[z].outcome = "patch-failed"
       /\ plans[z].created > 0
  /\ result.ZonesCreated = 0
  /\ result.RRsetsCreated > 0
  /\ backend = backend0

\* ------------------------------------------------------------------------
\* The shape of a patch
\* ------------------------------------------------------------------------

\* C35: for every zone processed the patch holds as many operations as the
\* zone adds to RRsetsCreated, RRsetsUpdated and RRsetsDeleted together; the
\* keys of its operations are pairwise distinct; every REPLACE carries at
\* least one record and exactly one comment, whose account is the
\* configured account name; every DELETE carries no records.
C35_PatchShape ==
  \A z \in Planned :
    /\ Len(plans[z].ops) = plans[z].created + plans[z].updated + plans[z].deleted
    /\ \A i, j \in 1..Len(plans[z].ops) :
         KeyOf(plans[z].ops[i]) = KeyOf(plans[z].ops[j]) => i = j
    /\ \A i \in OpsOfKind(z, "REPLACE") :
         /\ Len(plans[z].ops[i].Records) >= 1
         /\ Len(plans[z].ops[i].Comments) = 1
         /\ plans[z].ops[i].Comments[1].Account = "zone-manager"
    /\ \A i \in OpsOfKind(z, "DELETE") : Len(plans[z].ops[i].Records) = 0
    /\ \A i \in 1..Len(plans[z].ops) : plans[z].ops[i].ChangeType \in {"REPLACE", "DELETE"}
    /\ pc = "done" /\ DOMAIN plans = {z} =>
         Len(plans[z].ops)
           = result.RRsetsCreated + result.RRsetsUpdated + result.RRsetsDeleted

\* a patch with a creation, an update and a deletion was sent
C35_Witness ==
  \E z \in Planned :
    /\ pc = "done"
    /\ plans[z].sent
    /\ plans[z].created >= 1
    /\ plans[z].updated >= 1
    /\ plans[z].deleted >= 1
    /\ Len(plans[z].ops) >= 3

\* ------------------------------------------------------------------------
\* A zone that cannot be created
\* ------------------------------------------------------------------------

\* the zone keys whose CreateZone call failed
CreateFailed == {calls[i].key : i \in {k \in CallsOf({"CreateZone"}) : ~calls[k].ok}}

\* C36: if CreateZone fails for a zone, no PatchZone is sent for it, no
\* record-set operation is planned or counted for it, the confirmation
\* callback is not invoked for it, and exactly one error attributed to the
\* zone is recorded in ApplyResult.Errors.
C36_CreateFailure ==
  /\ \A z \in CreateFailed :
       /\ \A i \in CallsOf({"PatchZone", "Confirm"}) : calls[i].key # z
       /\ z \in DOMAIN plans
       /\ plans[z].ops = <<>>
       /\ plans[z].created + plans[z].updated + plans[z].deleted = 0
       /\ Cardinality(ErrorsOf(z)) = 1
       /\ Cardinality({i \in CallsOf({"CreateZone"}) : calls[i].key = z}) = 1
  /\ pc = "done" /\ ret = "result" =>
       result.RRsetsCreated + result.RRsetsUpdated + result.RRsetsDeleted
         = SumOver(DOMAIN plans \ CreateFailed,
                   [z \in DOMAIN plans \ CreateFailed |-> Len(plans[z].ops)])

\* CreateZone failed for a zone with nameservers and a record set in a run
\* that asks for confirmation; another zone was confirmed and patched
C36_Witness ==
  /\ pc = "done"
  /\ opts.HasConfirmFn
  /\ \E y \in CreateFailed : \E z \in DOMAIN plans \ CreateFailed :
       /\ Len(cfg[y].Nameservers) > 0
       /\ Len(cfg[y].RRsets) > 0
       /\ plans[z].asked
       /\ plans[z].sent
       /\ plans[z].outcome = "ok"
  /\ Len(result.Errors) = 1

\* ------------------------------------------------------------------------
\* Apply under every combination of options
\* ------------------------------------------------------------------------

\* DryRun, AutoConfirm and an installed callback in every combination
AllOptions ==
  [DryRun : BOOLEAN, AutoConfirm : BOOLEAN, HasConfirmFn : BOOLEAN]

ConfirmConfigs ==
  {d \in Configs : /\ WellFormed(d)
                   /\ DOMAIN d \in {{ZoneA}, {ZoneA, ZoneB}}
                   /\ Len(d[ZoneA].RRsets) <= 1}

InitConfirm ==
  /\ cfg \in ConfirmConfigs
  /\ opts \in AllOptions
  /\ backend \in BackendFor(cfg)
  /\ run = 1
  /\ prev = NoPrev
  /\ args = <<>>
  /\ out = <<>>
  /\ ApplyEntry

SpecConfirm == InitConfirm /\ [][Next]_vars

\* C37: the confirmation callback is invoked at most once per zone, only
\* in a real run without auto-confirm and for a zone with a non-empty patch,
\* and before the PatchZone request of the zone; in a real run without
\* auto-confirm and without a callback a non-empty patch is sent without any
\* confirmation.
C37_ConfirmationOnce ==
  /\ \A z \in DOMAIN cfg :
       /\ Cardinality(ConfirmsOf(z)) <= 1
       /\ \A i \in ConfirmsOf(z) :
            /\ ~opts.DryRun
            /\ ~opts.AutoConfirm
            /\ z \in Planned
            /\ Len(plans[z].ops) > 0
            /\ \A p \in PatchesOf(z) : i < p
  /\ ~opts.DryRun /\ ~opts.AutoConfirm /\ ~opts.HasConfirmFn =>
       /\ CallsOf({"Confirm"}) = {}
       /\ \A z \in Planned :
            Len(plans[z].ops) > 0 =>
              /\ Cardinality(PatchesOf(z)) = 1
              /\ \A p \in PatchesOf(z) : calls[p].rrsets = plans[z].ops

\* the callback granted the patch of one zone, which was sent afterwards,
\* and declined the patch of another
C37_Witness ==
  /\ pc = "done"
  /\ \E y, z \in Planned :
       /\ \E i \in ConfirmsOf(y) : calls[i].ok /\ \E p \in PatchesOf(y) : i < p
       /\ \E i \in ConfirmsOf(z) : ~calls[i].ok
       /\ PatchesOf(z) = {}
  /\ Cardinality(CallsOf({"Confirm"})) = 2

\* ------------------------------------------------------------------------
\* One zone under two keys
\* ------------------------------------------------------------------------

\* the calls of an operation that name a canonical zone ID
CallsTo(op, zoneID) == {i \in CallsOf({op}) : calls[i].zone = zoneID}

\* C38: during one Apply invocation each canonical zone ID receives at most
\* one GetZone, at most one CreateZone and at most one PatchZone call, also
\* when the configuration names the zone under two keys that differ by the
\* trailing dot only; each phase passes once over the configured zones.
C38_OneCallPerZone ==
  /\ \A id \in ZoneIDs : \A op \in BackendCalls : Cardinality(CallsTo(op, id)) <= 1
  /\ \A z \in DOMAIN cfg : \A op \in BackendCalls :
       Cardinality({i \in CallsOf({op}) : calls[i].key = z}) <= 1

\* ------------------------------------------------------------------------
\* The status codes of the backend
\* ------------------------------------------------------------------------

\* the server answered the call with this status
Answered(status) == ~args.resp.failed /\ args.resp.StatusCode = status

\* C39: a GetZone response with status 404 is no error: the state of the
\* zone becomes Exists = false and the run goes on; a response with status
\* 200 yields the zone of its body; any other status and a failure of the
\* transport are a fetch error, which ends the run.  PatchZone succeeds on
\* status 204 only and CreateZone on status 201 only.
C39_StatusCodes ==
  /\ pc \in {"returned", "repeated"} /\ args.fn = "GetZone" =>
       /\ Answered(404) => ~out[1].err /\ ~out[1].zone.Exists
       /\ Answered(200) /\ args.resp.body.json =>
            ~out[1].err /\ out[1].zone = args.resp.body.zone
       /\ ~Answered(404) /\ ~Answered(200) => out[1].err
  /\ pc = "repeated" /\ args.fn = "GetZone" =>
       /\ out[1].err <=> out[2].ret = "fetch-error"
       /\ Answered(404) =>
            /\ out[2].ret = "none"
            /\ out[2].state = [Exists |-> FALSE, IsManaged |-> FALSE]
       /\ Answered(200) /\ args.resp.body.json => out[2].state.Exists
  /\ pc = "returned" /\ args.fn = "PatchZone" => (~out[1].err <=> Answered(204))
  /\ pc = "returned" /\ args.fn = "CreateZone" =>
       /\ ~out[1].err => Answered(201)
       /\ ~Answered(201) => out[1].err

\* GetZone was answered with 404 and the fetch phase went on with a zone
\* that does not exist
C39_Witness ==
  /\ pc = "repeated"
  /\ args.fn = "GetZone"
  /\ Answered(404)
  /\ ~out[1].err
  /\ out[2] = [ret |-> "none", state |-> [Exists |-> FALSE, IsManaged |-> FALSE]]

\* ------------------------------------------------------------------------
\* Masked secrets
\* ------------------------------------------------------------------------

\* strings.Contains(s, t)
Contains(s, t) ==
  \E i \in 0..(Len(s) - Len(t)) : \A k \in 1..Len(t) : s[i + k] = t[k]

\* the result for a short secret, and for a longer one the characters of
\* the result: the first two and the last two of the secret, "*" between
MaskedShape ==
  /\ Len(args.secret) <= 4 => out[1] = <<"*", "*", "*", "*">>
  /\ Len(args.secret) > 4 =>
       /\ Len(out[1]) = Len(args.secret)
       /\ \A i \in 1..Len(out[1]) :
            out[1][i] = IF i <= 2 \/ i > Len(args.secret) - 2 THEN args.secret[i] ELSE "*"

\* some character between the first two and the last two is not "*"
HiddenPart == \E i \in 3..(Len(args.secret) - 2) : args.secret[i] # "*"

====
